---- MODULE Spec2Model ----
(***************************************************************************)
(* Control core of the FPP-3 rotary processor (src/rotary_processor.ino):  *)
(* the polling loop, the dispatcher (currentState / currentPage / runMode),*)
(* the motor drive controller runMotor, the speed adapter setTankSpeed,    *)
(* the buzzer, the preheat readiness latch and the settings store.         *)
(*                                                                         *)
(* The sketch is sequential code over file-scope globals.  Every function  *)
(* of the sketch is an operator from a state record to a state record, in  *)
(* the order of its statements; one loop() iteration is one action.        *)
(* Time is millis(): the variable now, advanced by Tick between loop       *)
(* iterations and by delay(250) inside startPreheatMotor.  LCD output and  *)
(* its few-ms I/O time are not modelled.                                   *)
(***************************************************************************)
EXTENDS Integers, Sequences, FiniteSets, TLC

\* ------------------------------------------------------------------------
\* Bounds of the model (not program constants)
\* ------------------------------------------------------------------------
\* digits accepted into a numeric entry before the environment stops typing
MaxEntryLen == 2

\* ------------------------------------------------------------------------
\* Program constants
\* ------------------------------------------------------------------------
\* setup(): delay(2000) after the splash, so loop() never sees millis() < 2000
BootMs == 2000
SETTINGS_VERSION == 4
NPROFILES == 17
deltaMax == 15
wTankHigh == 86
nFullRev == 3
wMotorMax == 255
accelCycleTime == 300
PWM_PREHEAT_MIN == 100
PWM_PREHEAT_MAX == 255
PREHEAT_READY_MS == 10000
UPDATE_INTERVAL == 200
RPM_THRESHOLD == 2
BAND_IN_10 == 3
BAND_OUT_10 == 5
HOLD_MS == 30000
CAL_COMBO_MS == 800
OFF_COMBO_MS == 1000
MENU_DELAY_MS == 3000
PRE_END_MS == 5000
BEEP_MS == 200
KICK_DELAY_MS == 250
CAL_MAX_10 == 999
TEMP_UPDATE_INTERVAL_MS == 1000
\* -99.9 C, the "sensor absent" placeholder, in tenths of a degree
INVALID_10 == -999
\* DEVICE_DISCONNECTED_C (-127 C) of the DallasTemperature library, in tenths
DEVICE_DISCONNECTED_10 == -1270
\* tempMeanC and tempDevC are floats: they are kept in 1/1000 of a tenth
FINE == 1000
\* display range of the heater-dial suggestion, in degrees
HT_MIN_C == 20
HT_MAX_C == 60
\* tau [s] = f(volume, rpm)
TAU_MIN_S == 10
TAU_MAX_S == 600
TAU_BASE_S == 30
TAU_VOL_S_PER_100ML == 15
TAU_RPM_S_AT80 == 30
\* RPM_est = (rpmA_u * PWM + rpmB_u) / 1e6
rpmA_u == 355135
rpmB_u == -1513883
\* wTankInt = wTankHigh - deltaMax, wTankLow = wTankInt - deltaMax (setup)
wTankInt == wTankHigh - deltaMax
wTankLow == wTankInt - deltaMax
\* wMotorMin = wMotorMax * wTankLow / wTankHigh (setup, int arithmetic)
wMotorMin == (wMotorMax * wTankLow) \div wTankHigh

NO_KEY == "NO_KEY"
Digits == {"0", "1", "2", "3", "4", "5", "6", "7", "8", "9"}
AllKeys == Digits \cup {"A", "B", "C", "D", "*", "#"}

\* profiles[i].setC_tenths, profiles[i].id (catalog, indices 0..16)
setC_tenths(i) ==
  IF i \in {0, 3, 6, 9, 11, 13, 15} THEN 200
  ELSE IF i \in {10, 12, 14, 16} THEN 350 ELSE 380
profileId(i) == i + 1
\* profiles[i].vol_ml, profiles[i].dT_pour_10
vol_ml(i) ==
  IF i \in 0..2 THEN 330 ELSE IF i \in 3..5 THEN 730
  ELSE IF i \in 6..8 THEN 1000 ELSE IF i \in 9..10 THEN 40
  ELSE IF i \in 11..12 THEN 100 ELSE IF i \in 13..14 THEN 120 ELSE 200
dT_pour_10(i) ==
  IF i \in {0, 3, 6} THEN 0 ELSE IF i \in 1..8 THEN 5 ELSE 3

\* ------------------------------------------------------------------------
\* Arithmetic of the target (C integer division truncates toward zero)
\* ------------------------------------------------------------------------
CDiv(a, b) == IF a >= 0 THEN a \div b ELSE -((-a) \div b)
\* Arduino map(): (x - in_min) * (out_max - out_min) / (in_max - in_min) + out_min
map(x, in_min, in_max, out_min, out_max) ==
  CDiv((x - in_min) * (out_max - out_min), in_max - in_min) + out_min
constrain(x, lo, hi) == IF x < lo THEN lo ELSE IF x > hi THEN hi ELSE x
abs(x) == IF x < 0 THEN -x ELSE x
DigitVal(c) == CHOOSE d \in 0..9 : ToString(d) = c

RECURSIVE atoiAcc(_, _)
atoiAcc(text, acc) ==
  IF text = <<>> \/ Head(text) \notin Digits THEN acc
  ELSE atoiAcc(Tail(text), acc * 10 + DigitVal(Head(text)))
\* atoi(): the value of the leading decimal digits, 0 when there are none;
\* the result is an int of 16 bits (avr-libc accumulates without an overflow
\* test, so a larger number wraps around)
atoi(text) ==
  LET v == atoiAcc(text, 0) % 65536
  IN IF v >= 32768 THEN v - 65536 ELSE v

\* An unsigned long u of 2^31 or more is held as u - 2^32, its two's
\* complement reading (the checker's integers end at 2^31 - 1): an int
\* converted to unsigned long keeps its value, sums and products are right
\* modulo 2^32, and the order of two unsigned long values is ltU / leU
ltU(a, b) == IF (a < 0) = (b < 0) THEN a < b ELSE b < 0
leU(a, b) == a = b \/ ltU(a, b)

VARIABLES
  now,                \* millis()
  rawKey,             \* the key read by the latest loop iteration (NO_KEY if none)
  currentState, currentPage, runMode,
  awaitCalCombo, pendingAProfile, calComboStart,
  awaitOffCombo, comboStartTime, backlightOn,
  stepStoreMode, profSelectMode, profBuf, tempDiagMode,
  calPage, keypadbuffer,
  settings, eeprom,
  tMinutes, tSeconds, theTiming, currentProfile,
  offHtr_10, offBath_10, offTank_10, offBottle_10,
  motorRunStartTime, motorCycleStartTime, currentStateMotor, wMotor,
  RPWM, LPWM,
  potValue, wTank, lastWTank, theCycleTiming, breakCycleTime, nextSpeedUpdate,
  pwmPreheat,
  beepActive, beepEndTime, devPreEndBeepDone, lastRemaining,
  preheatReady, preheatReadyBeepDone, preheatStartTimeMs,
  inBandStartMs, readyLatched, lastProf,
  showMenuAfterStop, stopTimeMs,
  sensBath, requested, nextTempUpdateMs, tempBathC, devJustStarted,
  tempTankC, tempBottleC, tempMeanC, tempDevC, tempHtrSetC,
  runCompleted,       \* times the latest iteration signalled "run completed"
  calIncr,            \* net +0.1/-0.1 steps applied to the selected CAL page
                      \* since calibration was entered or the page changed
  command,            \* the argument of the latest runMotor() call
  nKeys,              \* keys read so far (bounds the exploration)
  factoryResets,      \* times loadSettings() has rewritten the defaults
  holdRestarted       \* this preheat has had its hold reset by a profile change

vars == <<now, rawKey, currentState, currentPage, runMode,
  awaitCalCombo, pendingAProfile, calComboStart,
  awaitOffCombo, comboStartTime, backlightOn,
  stepStoreMode, profSelectMode, profBuf, tempDiagMode,
  calPage, keypadbuffer, settings, eeprom,
  tMinutes, tSeconds, theTiming, currentProfile,
  offHtr_10, offBath_10, offTank_10, offBottle_10,
  motorRunStartTime, motorCycleStartTime, currentStateMotor, wMotor,
  RPWM, LPWM,
  potValue, wTank, lastWTank, theCycleTiming, breakCycleTime, nextSpeedUpdate,
  pwmPreheat,
  beepActive, beepEndTime, devPreEndBeepDone, lastRemaining,
  preheatReady, preheatReadyBeepDone, preheatStartTimeMs,
  inBandStartMs, readyLatched, lastProf,
  showMenuAfterStop, stopTimeMs,
  sensBath, requested, nextTempUpdateMs, tempBathC, devJustStarted,
  tempTankC, tempBottleC, tempMeanC, tempDevC, tempHtrSetC,
  runCompleted, calIncr, command, nKeys, factoryResets, holdRestarted>>

\* The globals and function statics of the sketch as one record
St == [now |-> now, rawKey |-> rawKey,
  currentState |-> currentState, currentPage |-> currentPage, runMode |-> runMode,
  awaitCalCombo |-> awaitCalCombo, pendingAProfile |-> pendingAProfile,
  calComboStart |-> calComboStart,
  awaitOffCombo |-> awaitOffCombo, comboStartTime |-> comboStartTime,
  backlightOn |-> backlightOn,
  stepStoreMode |-> stepStoreMode, profSelectMode |-> profSelectMode,
  profBuf |-> profBuf, tempDiagMode |-> tempDiagMode,
  calPage |-> calPage, keypadbuffer |-> keypadbuffer,
  settings |-> settings, eeprom |-> eeprom,
  tMinutes |-> tMinutes, tSeconds |-> tSeconds, theTiming |-> theTiming,
  currentProfile |-> currentProfile,
  offHtr_10 |-> offHtr_10, offBath_10 |-> offBath_10,
  offTank_10 |-> offTank_10, offBottle_10 |-> offBottle_10,
  motorRunStartTime |-> motorRunStartTime,
  motorCycleStartTime |-> motorCycleStartTime,
  currentStateMotor |-> currentStateMotor, wMotor |-> wMotor,
  RPWM |-> RPWM, LPWM |-> LPWM,
  potValue |-> potValue, wTank |-> wTank, lastWTank |-> lastWTank,
  theCycleTiming |-> theCycleTiming, breakCycleTime |-> breakCycleTime,
  nextSpeedUpdate |-> nextSpeedUpdate, pwmPreheat |-> pwmPreheat,
  beepActive |-> beepActive, beepEndTime |-> beepEndTime,
  devPreEndBeepDone |-> devPreEndBeepDone, lastRemaining |-> lastRemaining,
  preheatReady |-> preheatReady, preheatReadyBeepDone |-> preheatReadyBeepDone,
  preheatStartTimeMs |-> preheatStartTimeMs,
  inBandStartMs |-> inBandStartMs, readyLatched |-> readyLatched,
  lastProf |-> lastProf,
  showMenuAfterStop |-> showMenuAfterStop, stopTimeMs |-> stopTimeMs,
  sensBath |-> sensBath, requested |-> requested,
  nextTempUpdateMs |-> nextTempUpdateMs,
  tempBathC |-> tempBathC, devJustStarted |-> devJustStarted,
  tempTankC |-> tempTankC, tempBottleC |-> tempBottleC,
  tempMeanC |-> tempMeanC, tempDevC |-> tempDevC, tempHtrSetC |-> tempHtrSetC,
  runCompleted |-> runCompleted, calIncr |-> calIncr, command |-> command,
  nKeys |-> nKeys, factoryResets |-> factoryResets,
  holdRestarted |-> holdRestarted]

Assign(t) ==
  /\ now' = t.now /\ rawKey' = t.rawKey
  /\ currentState' = t.currentState /\ currentPage' = t.currentPage
  /\ runMode' = t.runMode
  /\ awaitCalCombo' = t.awaitCalCombo /\ pendingAProfile' = t.pendingAProfile
  /\ calComboStart' = t.calComboStart
  /\ awaitOffCombo' = t.awaitOffCombo /\ comboStartTime' = t.comboStartTime
  /\ backlightOn' = t.backlightOn
  /\ stepStoreMode' = t.stepStoreMode /\ profSelectMode' = t.profSelectMode
  /\ profBuf' = t.profBuf /\ tempDiagMode' = t.tempDiagMode
  /\ calPage' = t.calPage /\ keypadbuffer' = t.keypadbuffer
  /\ settings' = t.settings /\ eeprom' = t.eeprom
  /\ tMinutes' = t.tMinutes /\ tSeconds' = t.tSeconds /\ theTiming' = t.theTiming
  /\ currentProfile' = t.currentProfile
  /\ offHtr_10' = t.offHtr_10 /\ offBath_10' = t.offBath_10
  /\ offTank_10' = t.offTank_10 /\ offBottle_10' = t.offBottle_10
  /\ motorRunStartTime' = t.motorRunStartTime
  /\ motorCycleStartTime' = t.motorCycleStartTime
  /\ currentStateMotor' = t.currentStateMotor /\ wMotor' = t.wMotor
  /\ RPWM' = t.RPWM /\ LPWM' = t.LPWM
  /\ potValue' = t.potValue /\ wTank' = t.wTank /\ lastWTank' = t.lastWTank
  /\ theCycleTiming' = t.theCycleTiming /\ breakCycleTime' = t.breakCycleTime
  /\ nextSpeedUpdate' = t.nextSpeedUpdate /\ pwmPreheat' = t.pwmPreheat
  /\ beepActive' = t.beepActive /\ beepEndTime' = t.beepEndTime
  /\ devPreEndBeepDone' = t.devPreEndBeepDone /\ lastRemaining' = t.lastRemaining
  /\ preheatReady' = t.preheatReady
  /\ preheatReadyBeepDone' = t.preheatReadyBeepDone
  /\ preheatStartTimeMs' = t.preheatStartTimeMs
  /\ inBandStartMs' = t.inBandStartMs /\ readyLatched' = t.readyLatched
  /\ lastProf' = t.lastProf
  /\ showMenuAfterStop' = t.showMenuAfterStop /\ stopTimeMs' = t.stopTimeMs
  /\ sensBath' = t.sensBath /\ requested' = t.requested
  /\ nextTempUpdateMs' = t.nextTempUpdateMs
  /\ tempBathC' = t.tempBathC /\ devJustStarted' = t.devJustStarted
  /\ tempTankC' = t.tempTankC /\ tempBottleC' = t.tempBottleC
  /\ tempMeanC' = t.tempMeanC /\ tempDevC' = t.tempDevC
  /\ tempHtrSetC' = t.tempHtrSetC
  /\ runCompleted' = t.runCompleted /\ calIncr' = t.calIncr
  /\ command' = t.command /\ nKeys' = t.nKeys
  /\ factoryResets' = t.factoryResets
  /\ holdRestarted' = t.holdRestarted

\* ------------------------------------------------------------------------
\* Settings store
\* ------------------------------------------------------------------------
UndefinedStep == [minutes |-> 0, seconds |-> 0, defined |-> 0]

\* factoryResetSettings(): the default aggregate (the caller writes it to EEPROM)
DefaultSettings ==
  [version |-> SETTINGS_VERSION, tMinutes |-> 5, tSeconds |-> 0,
   devSteps |-> [i \in 0..9 |-> UndefinedStep], profileIndex |-> 1,
   offHtr_10 |-> 0, offBath_10 |-> 0, offTank_10 |-> 0, offBottle_10 |-> 0]

\* a save that leaves the stored profile index and bottle offset as they are
saveSettingsPartial(s) ==
  LET rec == [s.settings EXCEPT
                !.version = SETTINGS_VERSION,
                !.tMinutes = s.tMinutes % 65536,
                !.tSeconds = s.tSeconds % 65536,
                !.offHtr_10 = s.offHtr_10,
                !.offBath_10 = s.offBath_10,
                !.offTank_10 = s.offTank_10]
  IN [s EXCEPT !.settings = rec, !.eeprom = rec]

\* saveSettings(): copy the live values into settings and write the block
saveSettings(s) ==
  LET rec == [s.settings EXCEPT
                !.version = SETTINGS_VERSION,
                !.tMinutes = s.tMinutes % 65536,
                !.tSeconds = s.tSeconds % 65536,
                !.profileIndex = s.currentProfile,
                !.offHtr_10 = s.offHtr_10,
                !.offBath_10 = s.offBath_10,
                !.offTank_10 = s.offTank_10,
                !.offBottle_10 = s.offBottle_10]
  IN [s EXCEPT !.settings = rec, !.eeprom = rec]

\* theTiming = tMinutes * 60UL + tSeconds (unsigned long)
totalTiming(m, sec) == m * 60 + sec
\* theTiming * 1000UL (unsigned long)
totalMs(s) == s.theTiming * 1000

\* ------------------------------------------------------------------------
\* Buzzer
\* ------------------------------------------------------------------------
startBeep(s, durationMs) ==
  IF s.beepActive THEN s
  ELSE [s EXCEPT !.beepActive = TRUE, !.beepEndTime = s.now + durationMs]

\* loop(): "Beep service"
beepService(s) ==
  IF s.beepActive /\ leU(s.beepEndTime, s.now)
  THEN [s EXCEPT !.beepActive = FALSE] ELSE s

\* serviceDevPreEndBeep(): one-shot warning 5 s before the end of a DEV run
serviceDevPreEndBeep(s) ==
  IF s.runMode # "MODE_DEV" \/ s.motorRunStartTime = 0
  THEN [s EXCEPT !.devPreEndBeepDone = FALSE]
  ELSE
    LET total == totalMs(s)
        elapsedMs == s.now - s.motorRunStartTime
    IN IF leU(total, PRE_END_MS) THEN s
       ELSE IF leU(total, elapsedMs) THEN s
       ELSE IF ~s.devPreEndBeepDone /\ ~s.beepActive
               /\ leU(total - elapsedMs, PRE_END_MS)
            THEN [startBeep(s, BEEP_MS) EXCEPT !.devPreEndBeepDone = TRUE]
            ELSE s

\* displayCounterMenu(): the countdown; it carries a second 5 s warning tone
displayCounterMenu(s) ==
  LET total == totalMs(s)
      elapsedTime == s.now - s.motorRunStartTime
      remainingTime == IF leU(total, elapsedTime) THEN 0 ELSE total - elapsedTime
      s1 == IF ltU(5, s.theTiming) /\ remainingTime # 0
               /\ leU(remainingTime, PRE_END_MS)
               /\ ltU(PRE_END_MS, s.lastRemaining) /\ ~s.beepActive
            THEN startBeep(s, BEEP_MS) ELSE s
  IN [s1 EXCEPT !.lastRemaining = remainingTime]

\* ------------------------------------------------------------------------
\* Temperature input (USE_DS18B20 = 1; only the bath sensor has an address)
\* ------------------------------------------------------------------------
isValidTempC(t10) == t10 > -500 /\ t10 < 1000

\* one sample as updateTempsDS18B20() stores it: -99.9 for a missing
\* device, the calibration offset added to a valid sample only
calibrated(raw, off_10) ==
  LET t10 == IF raw <= -1000 THEN INVALID_10 ELSE raw
  IN IF isValidTempC(t10) THEN t10 + off_10 ELSE t10

\* updateTempsDS18B20(): request on one call, read on the next; addrTank
\* and addrBottle are { 0 }, so these two read as DEVICE_DISCONNECTED_C
updateTempsDS18B20(s) ==
  IF ~s.requested THEN [s EXCEPT !.requested = TRUE]
  ELSE [s EXCEPT !.requested = FALSE,
                 !.tempBathC = calibrated(s.sensBath, s.offBath_10),
                 !.tempTankC =
                    calibrated(DEVICE_DISCONNECTED_10, s.offTank_10),
                 !.tempBottleC =
                    calibrated(DEVICE_DISCONNECTED_10, s.offBottle_10)]

\* updateTemps1Hz(): rate limiter of the thermal block
updateTemps1Hz(s) ==
  IF ltU(s.now, s.nextTempUpdateMs) THEN s
  ELSE updateTempsDS18B20(
         [s EXCEPT !.nextTempUpdateMs = s.now + TEMP_UPDATE_INTERVAL_MS])

\* isValidTempC() on a value kept in 1/1000 of a tenth
isValidFine(t) == t > -500 * FINE /\ t < 1000 * FINE

\* rpmFromPwm(): micro-RPM rounded to the nearest RPM
rpmFromPwm(pwm) ==
  LET r_u == rpmA_u * pwm + rpmB_u
  IN ((IF r_u < 0 THEN 0 ELSE r_u) + 500000) \div 1000000

\* computeTauS(), in milliseconds
computeTauS(vol, rpm) ==
  LET r == IF rpm < 5 THEN 5 ELSE rpm
      tau == TAU_BASE_S * 1000 + (TAU_VOL_S_PER_100ML * 1000 * vol) \div 100
             + (TAU_RPM_S_AT80 * 1000 * 80) \div r
  IN constrain(tau, TAU_MIN_S * 1000, TAU_MAX_S * 1000)

\* a mean over all three samples, a missing one counted as -99.9
meanOfAll(s) ==
  IF isValidTempC(s.tempBathC) \/ isValidTempC(s.tempTankC)
     \/ isValidTempC(s.tempBottleC)
  THEN CDiv((s.tempBathC + s.tempTankC + s.tempBottleC) * FINE, 3)
  ELSE INVALID_10 * FINE

\* updateDerivedTemps(): the mean of the valid samples
meanOfValid(s) ==
  LET samples == <<s.tempBathC, s.tempTankC, s.tempBottleC>>
      valid == {k \in 1..3 : isValidTempC(samples[k])}
      sum == (IF 1 \in valid THEN samples[1] ELSE 0)
             + (IF 2 \in valid THEN samples[2] ELSE 0)
             + (IF 3 \in valid THEN samples[3] ELSE 0)
  IN IF valid # {} THEN CDiv(sum * FINE, Cardinality(valid))
     ELSE INVALID_10 * FINE

\* updateDerivedTemps(): the driver temperature of the lag model
driverTemp(s, mean) ==
  IF s.runMode = "MODE_PREHEAT"
  THEN IF isValidTempC(s.tempTankC) THEN s.tempTankC * FINE
       ELSE IF isValidFine(mean) THEN mean
       ELSE IF isValidTempC(s.tempBathC) THEN s.tempBathC * FINE
       ELSE INVALID_10 * FINE
  ELSE IF isValidFine(mean) THEN mean
       ELSE IF isValidTempC(s.tempTankC) THEN s.tempTankC * FINE
       ELSE IF isValidTempC(s.tempBathC) THEN s.tempBathC * FINE
       ELSE IF isValidTempC(s.tempBottleC) THEN s.tempBottleC * FINE
       ELSE INVALID_10 * FINE

\* a lag step with tau taken in seconds where milliseconds are due, and
\* the coefficient not clamped
lagStepUnclamped(dev, Tdrive, tauMs) ==
  dev + CDiv((Tdrive - dev) * TEMP_UPDATE_INTERVAL_MS, tauMs \div 1000)

\* updateDerivedTemps(): one step of the first-order lag,
\* tempDevC + alpha * (Tdrive - tempDevC) with alpha = dt / tau in [0, 1]
lagStep(dev, Tdrive, tauMs) ==
  IF TEMP_UPDATE_INTERVAL_MS > tauMs THEN Tdrive
  ELSE dev + CDiv((Tdrive - dev) * TEMP_UPDATE_INTERVAL_MS, tauMs)

\* updateDerivedTemps()
updateDerivedTemps(s) ==
  LET mean == meanOfValid(s)
      Tdrive == driverTemp(s, mean)
      rpmNow == IF s.runMode = "MODE_PREHEAT" THEN rpmFromPwm(s.pwmPreheat)
                ELSE s.wTank
      vol == IF s.runMode = "MODE_PREHEAT" THEN 0
             ELSE vol_ml(s.currentProfile)
      pour == s.devJustStarted /\ s.runMode = "MODE_DEV"
              /\ s.motorRunStartTime # 0
      dev0 == IF ~pour THEN s.tempDevC
              ELSE IF isValidTempC(s.tempBottleC)
              THEN (s.tempBottleC - dT_pour_10(s.currentProfile)) * FINE
              ELSE IF isValidFine(Tdrive) THEN Tdrive ELSE INVALID_10 * FINE
      dev1 == IF isValidFine(dev0) THEN dev0 ELSE Tdrive
  IN [s EXCEPT
        !.tempMeanC = mean,
        !.devJustStarted = IF pour THEN FALSE ELSE s.devJustStarted,
        !.tempDevC =
           IF isValidFine(Tdrive)
           THEN lagStep(dev1, Tdrive, computeTauS(vol, rpmNow))
           ELSE INVALID_10 * FINE]

\* a dial rule that leaves the heater calibration offset out
computeHtrKnob10NoOffset(s) ==
  IF ~isValidTempC(s.tempBathC) \/ ~isValidTempC(s.tempBottleC)
  THEN <<FALSE, 0>>
  ELSE <<TRUE, constrain(setC_tenths(s.currentProfile)
                           + (s.tempBathC - s.tempBottleC),
                         -999, 999)>>

\* computeHtrKnob10(): <<computed, HT10>>
computeHtrKnob10(s) ==
  IF ~isValidTempC(s.tempBathC) \/ ~isValidTempC(s.tempBottleC)
  THEN <<FALSE, 0>>
  ELSE <<TRUE, constrain(setC_tenths(s.currentProfile)
                           + (s.tempBathC - s.tempBottleC) + s.offHtr_10,
                         -999, 999)>>

\* updateHtrSuggestion1Hz(); tempHtrSetC in tenths of a degree
updateHtrSuggestion1Hz(s) ==
  LET knob == computeHtrKnob10(s)
      base == IF knob[1] THEN knob[2] ELSE setC_tenths(s.currentProfile)
      comp == IF s.runMode = "MODE_DEV" /\ s.motorRunStartTime # 0
              THEN base + dT_pour_10(s.currentProfile) ELSE base
  IN [s EXCEPT !.tempHtrSetC = constrain(comp, HT_MIN_C * 10, HT_MAX_C * 10)]

\* loop(): the 1 Hz service block
thermalService(s) ==
  IF ltU(s.now, s.nextTempUpdateMs) THEN s
  ELSE updateHtrSuggestion1Hz(updateDerivedTemps(updateTemps1Hz(s)))

\* ------------------------------------------------------------------------
\* Speed adapter
\* ------------------------------------------------------------------------
\* a cycle length without the acceleration window
cycleTimingBare(w) == (nFullRev * 60000) \div w - accelCycleTime * 8

\* theCycleTiming = (nFullRev * 60000UL) / wTank + accelCycleTime
cycleTiming(w) == (nFullRev * 60000) \div w + accelCycleTime
\* wMotor = constrain(map(wTank, wTankLow, wTankHigh, wMotorMin, wMotorMax), 0, 255)
motorDuty(w) ==
  constrain(map(w, wTankLow, wTankHigh, wMotorMin, wMotorMax), 0, 255)

\* a sampling that accepts every candidate that differs at all
setTankSpeedNoThreshold(s) ==
  IF leU(UPDATE_INTERVAL, s.now - s.nextSpeedUpdate)
  THEN
    LET delta == map(s.potValue, 0, 1023, -deltaMax, deltaMax)
        newWTank == constrain(wTankInt + delta, wTankLow, wTankHigh)
        s1 == [s EXCEPT !.nextSpeedUpdate = s.now]
    IN IF abs(newWTank - s.lastWTank) >= 1
       THEN [s1 EXCEPT
               !.wTank = newWTank, !.lastWTank = newWTank,
               !.theCycleTiming = cycleTiming(newWTank),
               !.breakCycleTime = cycleTiming(newWTank) - accelCycleTime,
               !.wMotor = IF s.motorRunStartTime # 0
                          THEN motorDuty(newWTank) ELSE s.wMotor]
       ELSE s1
  ELSE s

setTankSpeed(s) ==
  IF leU(UPDATE_INTERVAL, s.now - s.nextSpeedUpdate)
  THEN
    LET delta == map(s.potValue, 0, 1023, -deltaMax, deltaMax)
        newWTank == constrain(wTankInt + delta, wTankLow, wTankHigh)
        s1 == [s EXCEPT !.nextSpeedUpdate = s.now]
    IN IF abs(newWTank - s.lastWTank) >= RPM_THRESHOLD
       THEN [s1 EXCEPT
               !.wTank = newWTank, !.lastWTank = newWTank,
               !.theCycleTiming = cycleTiming(newWTank),
               !.breakCycleTime = cycleTiming(newWTank) - accelCycleTime,
               !.wMotor = IF s.motorRunStartTime # 0
                          THEN motorDuty(newWTank) ELSE s.wMotor]
       ELSE s1
  ELSE s

\* loop(): pwmPreheat = constrain(map(pot, 0, 1023, MIN, MAX), MIN, MAX)
preheatPwm(s) ==
  [s EXCEPT !.pwmPreheat =
     constrain(map(s.potValue, 0, 1023, PWM_PREHEAT_MIN, PWM_PREHEAT_MAX),
               PWM_PREHEAT_MIN, PWM_PREHEAT_MAX)]

\* ------------------------------------------------------------------------
\* Motor drive controller
\* ------------------------------------------------------------------------
\* runMotor(): "if START received and motor not started yet"
motorStartBlock(s) ==
  [s EXCEPT !.motorRunStartTime = s.now,
            !.motorCycleStartTime = s.now,
            !.wMotor = motorDuty(s.wTank),
            !.currentStateMotor = "MOTOR_CW"]

\* analogWrite of a ramp or constant duty in the current direction
driveOutputs(s, duty) ==
  IF s.currentStateMotor = "MOTOR_CW"
  THEN [s EXCEPT !.LPWM = 0, !.RPWM = duty]
  ELSE [s EXCEPT !.RPWM = 0, !.LPWM = duty]

\* runMotor(): acceleration / constant speed / braking by elapsed time in cycle
motorPhases(s) ==
  LET tElapsed == s.now - s.motorCycleStartTime
  IN IF tElapsed <= accelCycleTime
     THEN driveOutputs(s, map(tElapsed, 0, accelCycleTime, 0, s.wMotor))
     ELSE IF tElapsed <= s.breakCycleTime
     THEN driveOutputs(s, s.wMotor)
     ELSE IF tElapsed > s.breakCycleTime /\ tElapsed < s.theCycleTiming
     THEN driveOutputs(s, map(tElapsed, s.breakCycleTime, s.theCycleTiming,
                              s.wMotor, 0))
     ELSE s

\* a reversal that is taken as soon as braking begins
motorReverseAtBrake(s) ==
  IF s.now - s.motorCycleStartTime > s.breakCycleTime
  THEN [s EXCEPT !.RPWM = 0, !.LPWM = 0,
                 !.motorCycleStartTime = s.now,
                 !.currentStateMotor =
                    IF s.currentStateMotor = "MOTOR_CW"
                    THEN "MOTOR_CCW" ELSE "MOTOR_CW"]
  ELSE s

\* runMotor(): "change direction after one CW/CCW cycle"
motorReverse(s) ==
  IF s.now - s.motorCycleStartTime >= s.theCycleTiming
  THEN [s EXCEPT !.RPWM = 0, !.LPWM = 0,
                 !.motorCycleStartTime = s.now,
                 !.currentStateMotor =
                    IF s.currentStateMotor = "MOTOR_CW"
                    THEN "MOTOR_CCW" ELSE "MOTOR_CW"]
  ELSE s

\* a timed stop that leaves the outputs at their last duty
motorTimedStopCoasting(s) ==
  [s EXCEPT !.motorRunStartTime = 0,
            !.currentStateMotor = "MOTOR_FORCESTOP",
            !.beepActive = FALSE,
            !.showMenuAfterStop = TRUE,
            !.stopTimeMs = s.now,
            !.runMode = "MODE_IDLE",
            !.runCompleted = s.runCompleted + 1]

\* runMotor(): "stop when total programmed time elapses"
motorTimedStop(s) ==
  [s EXCEPT !.RPWM = 0, !.LPWM = 0,
            !.motorRunStartTime = 0,
            !.currentStateMotor = "MOTOR_FORCESTOP",
            !.beepActive = FALSE,
            !.showMenuAfterStop = TRUE,
            !.stopTimeMs = s.now,
            !.runMode = "MODE_IDLE",
            !.runCompleted = s.runCompleted + 1]

\* runMotor(): the FORCESTOP block
motorForceStop(s) ==
  [s EXCEPT !.LPWM = 0, !.RPWM = 0,
            !.motorRunStartTime = 0,
            !.currentStateMotor = "MOTOR_FORCESTOP",
            !.beepActive = FALSE]

\* a total-time test that lets the boundary tick pass (> for >=)
timeElapsedLate(s) ==
  s.motorRunStartTime # 0
  /\ ltU(totalMs(s), s.now - s.motorRunStartTime)

\* runMotor(): "stop if total time elapsed"
timeElapsed(s) ==
  s.motorRunStartTime # 0
  /\ leU(totalMs(s), s.now - s.motorRunStartTime)

\* a controller that takes the start block on every START, running or not
runMotorRestart(s, cmd) ==
  LET s0 == [s EXCEPT !.command = cmd]
      s1 == IF cmd = "MOTOR_START" THEN motorStartBlock(s0) ELSE s0
  IN IF s1.currentStateMotor = "MOTOR_FORCESTOP" THEN s1
     ELSE
       LET s3 == motorReverse(motorPhases(s1))
       IN IF timeElapsed(s3) THEN motorTimedStop(s3)
          ELSE IF cmd = "MOTOR_FORCESTOP" THEN motorForceStop(s3)
          ELSE s3

\* runMotor(command)
runMotor(s, cmd) ==
  LET s0 == [s EXCEPT !.command = cmd]
      s1 == IF cmd = "MOTOR_START" /\ s0.motorRunStartTime = 0
            THEN motorStartBlock(s0) ELSE s0
  IN IF s1.currentStateMotor = "MOTOR_FORCESTOP" THEN s1
     ELSE
       LET s3 == motorReverse(motorPhases(s1))
       IN IF timeElapsed(s3) THEN motorTimedStop(s3)
          ELSE IF cmd = "MOTOR_FORCESTOP" THEN motorForceStop(s3)
          ELSE s3

\* ------------------------------------------------------------------------
\* Preheat motor and readiness
\* ------------------------------------------------------------------------
\* startPreheatMotor(): kick at 200, delay(250), then the pot-controlled duty
startPreheatMotor(s) ==
  [s EXCEPT !.preheatReady = FALSE, !.preheatReadyBeepDone = FALSE,
            !.preheatStartTimeMs = s.now,
            !.runMode = "MODE_PREHEAT",
            !.now = s.now + KICK_DELAY_MS,
            !.RPWM = s.pwmPreheat, !.LPWM = 0]

runPreheatMotor(s) == [s EXCEPT !.RPWM = s.pwmPreheat, !.LPWM = 0]

stopPreheatMotor(s) ==
  [s EXCEPT !.RPWM = 0, !.LPWM = 0,
            !.preheatStartTimeMs = 0,
            !.runMode = "MODE_IDLE"]

\* isPreheatReady() carrying the hold and the latch over to a new profile
isPreheatReadyAnyProfile(s) ==
  IF s.runMode # "MODE_PREHEAT" \/ s.preheatStartTimeMs = 0
  THEN [s EXCEPT !.inBandStartMs = 0, !.readyLatched = FALSE,
                 !.lastProf = s.currentProfile, !.preheatReady = FALSE,
                 !.holdRestarted = FALSE]
  ELSE
    LET s1 == IF s.lastProf # s.currentProfile
              THEN [s EXCEPT !.lastProf = s.currentProfile,
                             !.holdRestarted = TRUE]
              ELSE s
    IN IF s1.tempBathC < -500 \/ s1.tempBathC > 1000
       THEN [s1 EXCEPT !.preheatReady =
                         (s1.now - s1.preheatStartTimeMs >= PREHEAT_READY_MS)]
       ELSE
         LET diff10 == abs(s1.tempBathC - setC_tenths(s1.currentProfile))
             s2 == IF ~s1.readyLatched
                   THEN IF diff10 <= BAND_IN_10
                        THEN LET start == IF s1.inBandStartMs = 0
                                          THEN s1.now ELSE s1.inBandStartMs
                             IN [s1 EXCEPT
                                   !.inBandStartMs = start,
                                   !.readyLatched = (s1.now - start >= HOLD_MS)]
                        ELSE [s1 EXCEPT !.inBandStartMs = 0]
                   ELSE IF diff10 > BAND_OUT_10
                        THEN [s1 EXCEPT !.readyLatched = FALSE,
                                        !.inBandStartMs = 0]
                        ELSE s1
         IN [s2 EXCEPT !.preheatReady = s2.readyLatched]

\* isPreheatReady() without the time fallback: an invalid reading reports
\* the latch
isPreheatReadyNoFallback(s) ==
  IF s.runMode # "MODE_PREHEAT" \/ s.preheatStartTimeMs = 0
  THEN [s EXCEPT !.inBandStartMs = 0, !.readyLatched = FALSE,
                 !.lastProf = s.currentProfile, !.preheatReady = FALSE,
                 !.holdRestarted = FALSE]
  ELSE
    LET s1 == IF s.lastProf # s.currentProfile
              THEN [s EXCEPT !.lastProf = s.currentProfile,
                             !.inBandStartMs = 0, !.readyLatched = FALSE,
                             !.holdRestarted = TRUE]
              ELSE s
    IN IF s1.tempBathC < -500 \/ s1.tempBathC > 1000
       THEN [s1 EXCEPT !.preheatReady = s1.readyLatched]
       ELSE
         LET diff10 == abs(s1.tempBathC - setC_tenths(s1.currentProfile))
             s2 == IF ~s1.readyLatched
                   THEN IF diff10 <= BAND_IN_10
                        THEN LET start == IF s1.inBandStartMs = 0
                                          THEN s1.now ELSE s1.inBandStartMs
                             IN [s1 EXCEPT
                                   !.inBandStartMs = start,
                                   !.readyLatched = (s1.now - start >= HOLD_MS)]
                        ELSE [s1 EXCEPT !.inBandStartMs = 0]
                   ELSE IF diff10 > BAND_OUT_10
                        THEN [s1 EXCEPT !.readyLatched = FALSE,
                                        !.inBandStartMs = 0]
                        ELSE s1
         IN [s2 EXCEPT !.preheatReady = s2.readyLatched]

\* isPreheatReady() without the hold: the first in-band reading latches
isPreheatReadyNoHold(s) ==
  IF s.runMode # "MODE_PREHEAT" \/ s.preheatStartTimeMs = 0
  THEN [s EXCEPT !.inBandStartMs = 0, !.readyLatched = FALSE,
                 !.lastProf = s.currentProfile, !.preheatReady = FALSE,
                 !.holdRestarted = FALSE]
  ELSE
    LET s1 == IF s.lastProf # s.currentProfile
              THEN [s EXCEPT !.lastProf = s.currentProfile,
                             !.inBandStartMs = 0, !.readyLatched = FALSE,
                             !.holdRestarted = TRUE]
              ELSE s
    IN IF s1.tempBathC < -500 \/ s1.tempBathC > 1000
       THEN [s1 EXCEPT !.preheatReady =
                         (s1.now - s1.preheatStartTimeMs >= PREHEAT_READY_MS)]
       ELSE
         LET diff10 == abs(s1.tempBathC - setC_tenths(s1.currentProfile))
             s2 == IF ~s1.readyLatched
                   THEN IF diff10 <= BAND_IN_10
                        THEN LET start == IF s1.inBandStartMs = 0
                                          THEN s1.now ELSE s1.inBandStartMs
                             IN [s1 EXCEPT
                                   !.inBandStartMs = start,
                                   !.readyLatched = TRUE]
                        ELSE [s1 EXCEPT !.inBandStartMs = 0]
                   ELSE IF diff10 > BAND_OUT_10
                        THEN [s1 EXCEPT !.readyLatched = FALSE,
                                        !.inBandStartMs = 0]
                        ELSE s1
         IN [s2 EXCEPT !.preheatReady = s2.readyLatched]

\* isPreheatReady() without hysteresis: the enter band also ends the latch
isPreheatReadySingleBand(s) ==
  IF s.runMode # "MODE_PREHEAT" \/ s.preheatStartTimeMs = 0
  THEN [s EXCEPT !.inBandStartMs = 0, !.readyLatched = FALSE,
                 !.lastProf = s.currentProfile, !.preheatReady = FALSE,
                 !.holdRestarted = FALSE]
  ELSE
    LET s1 == IF s.lastProf # s.currentProfile
              THEN [s EXCEPT !.lastProf = s.currentProfile,
                             !.inBandStartMs = 0, !.readyLatched = FALSE,
                             !.holdRestarted = TRUE]
              ELSE s
    IN IF s1.tempBathC < -500 \/ s1.tempBathC > 1000
       THEN [s1 EXCEPT !.preheatReady =
                         (s1.now - s1.preheatStartTimeMs >= PREHEAT_READY_MS)]
       ELSE
         LET diff10 == abs(s1.tempBathC - setC_tenths(s1.currentProfile))
             s2 == IF ~s1.readyLatched
                   THEN IF diff10 <= BAND_IN_10
                        THEN LET start == IF s1.inBandStartMs = 0
                                          THEN s1.now ELSE s1.inBandStartMs
                             IN [s1 EXCEPT
                                   !.inBandStartMs = start,
                                   !.readyLatched = (s1.now - start >= HOLD_MS)]
                        ELSE [s1 EXCEPT !.inBandStartMs = 0]
                   ELSE IF diff10 > BAND_IN_10
                        THEN [s1 EXCEPT !.readyLatched = FALSE,
                                        !.inBandStartMs = 0]
                        ELSE s1
         IN [s2 EXCEPT !.preheatReady = s2.readyLatched]

\* isPreheatReady(): the result is stored in preheatReady by the caller
isPreheatReady(s) ==
  IF s.runMode # "MODE_PREHEAT" \/ s.preheatStartTimeMs = 0
  THEN [s EXCEPT !.inBandStartMs = 0, !.readyLatched = FALSE,
                 !.lastProf = s.currentProfile, !.preheatReady = FALSE,
                 !.holdRestarted = FALSE]
  ELSE
    LET s1 == IF s.lastProf # s.currentProfile
              THEN [s EXCEPT !.lastProf = s.currentProfile,
                             !.inBandStartMs = 0, !.readyLatched = FALSE,
                             !.holdRestarted = TRUE]
              ELSE s
    IN IF s1.tempBathC < -500 \/ s1.tempBathC > 1000
       THEN [s1 EXCEPT !.preheatReady =
                         (s1.now - s1.preheatStartTimeMs >= PREHEAT_READY_MS)]
       ELSE
         LET diff10 == abs(s1.tempBathC - setC_tenths(s1.currentProfile))
             s2 == IF ~s1.readyLatched
                   THEN IF diff10 <= BAND_IN_10
                        THEN LET start == IF s1.inBandStartMs = 0
                                          THEN s1.now ELSE s1.inBandStartMs
                             IN [s1 EXCEPT
                                   !.inBandStartMs = start,
                                   !.readyLatched = (s1.now - start >= HOLD_MS)]
                        ELSE [s1 EXCEPT !.inBandStartMs = 0]
                   ELSE IF diff10 > BAND_OUT_10
                        THEN [s1 EXCEPT !.readyLatched = FALSE,
                                        !.inBandStartMs = 0]
                        ELSE s1
         IN [s2 EXCEPT !.preheatReady = s2.readyLatched]

\* loop(): PREHEAT one-shot READY beep (and the redraw request on TEMP)
preheatReadyBeep(s) ==
  IF s.runMode = "MODE_PREHEAT" /\ s.preheatReady /\ ~s.preheatReadyBeepDone
  THEN [startBeep(s, BEEP_MS) EXCEPT
          !.preheatReadyBeepDone = TRUE,
          !.currentState = IF s.currentPage = "PAGE_TEMP"
                           THEN "ST_DISPLAY_MAINMENU" ELSE s.currentState]
  ELSE s

\* loop(): refresh while in ST_WAIT; on the DEV page renderPageDEV() reaches
\* displayCounterMenu() while runMode is MODE_DEV
refreshDisplay(s) ==
  IF s.currentState = "ST_WAIT" /\ s.currentPage # "PAGE_TEMP"
     /\ s.runMode = "MODE_DEV"
  THEN displayCounterMenu(s) ELSE s

\* a return to the menu that does not wait for the grace delay
menuAfterStopAtOnce(s) ==
  IF s.showMenuAfterStop /\ s.motorRunStartTime = 0
  THEN [s EXCEPT !.currentState = "ST_WAIT", !.showMenuAfterStop = FALSE]
  ELSE s

\* loop(): "After a timed run finishes, show the main menu again after ~3 s"
menuAfterStop(s) ==
  IF s.showMenuAfterStop /\ s.motorRunStartTime = 0
     /\ s.now - s.stopTimeMs >= MENU_DELAY_MS
  THEN [s EXCEPT !.currentState = "ST_WAIT", !.showMenuAfterStop = FALSE]
  ELSE s

\* a loop that serves the motor only while the dispatcher waits for a key
loopServiceInWait(s) ==
  LET s1 == preheatPwm(setTankSpeed(thermalService(s)))
      s2 == IF s1.currentState # "ST_WAIT" THEN s1
            ELSE IF s1.runMode = "MODE_PREHEAT" THEN runPreheatMotor(s1)
            ELSE runMotor(s1, "MOTOR_CONTINUE")
      s3 == preheatReadyBeep(isPreheatReady(serviceDevPreEndBeep(s2)))
  IN beepService(menuAfterStop(refreshDisplay(s3)))

\* loop(): everything before switch (currentState)
loopService(s) ==
  LET s1 == preheatPwm(setTankSpeed(thermalService(s)))
      s2 == IF s1.runMode = "MODE_PREHEAT" THEN runPreheatMotor(s1)
            ELSE runMotor(s1, "MOTOR_CONTINUE")
      s3 == preheatReadyBeep(isPreheatReady(serviceDevPreEndBeep(s2)))
  IN beepService(menuAfterStop(refreshDisplay(s3)))

\* ------------------------------------------------------------------------
\* Dispatcher: case ST_WAIT
\* ------------------------------------------------------------------------
clearCalCombo(s) == [s EXCEPT !.awaitCalCombo = FALSE, !.pendingAProfile = FALSE]
clearProfBuf(s) == [s EXCEPT !.profSelectMode = FALSE, !.profBuf = <<>>]
toMainMenu(s) == [s EXCEPT !.currentState = "ST_DISPLAY_MAINMENU"]

\* a deadline that has expired already when 800 ms have passed
aAloneExpiredAtDeadline(s) ==
  s.awaitCalCombo /\ s.pendingAProfile /\ s.now - s.calComboStart >= CAL_COMBO_MS

\* "(A) Handle A alone timeout WITHOUT requiring a key"
aAloneExpired(s) ==
  s.awaitCalCombo /\ s.pendingAProfile /\ s.now - s.calComboStart > CAL_COMBO_MS

profileForward(s) ==
  toMainMenu(saveSettings(
    [clearCalCombo(s) EXCEPT
       !.currentProfile = (s.currentProfile + 1) % NPROFILES]))

\* a retreat that does not wrap at the first catalog entry
profileBackwardNoWrap(s) ==
  toMainMenu(saveSettings(
    [clearCalCombo(s) EXCEPT !.currentProfile = s.currentProfile - 1]))

profileBackward(s) ==
  toMainMenu(saveSettings(
    [clearCalCombo(s) EXCEPT
       !.currentProfile = (s.currentProfile + NPROFILES - 1) % NPROFILES]))

\* "A then B quickly => enter CAL"
enterCal(s) ==
  [clearCalCombo(s) EXCEPT !.profSelectMode = FALSE, !.calPage = "CAL_HTR",
                           !.currentState = "ST_CAL", !.calIncr = 0]

\* "4) NORMAL MENU KEYS A/B/C/D"
menuKeys(s, key) ==
  IF key = "A"
  THEN IF s.currentPage = "PAGE_TEMP" THEN s
       ELSE [s EXCEPT !.currentState = "ST_SETTIMING_M"]
  ELSE IF key = "B"
  THEN IF s.currentPage = "PAGE_DEV"
       THEN [s EXCEPT !.currentState = "ST_SETTIMING_S"] ELSE s
  ELSE IF key = "C"
  THEN [clearCalCombo(s) EXCEPT
          !.currentState = IF s.runMode # "MODE_IDLE" THEN "ST_IDLE"
                           ELSE IF s.currentPage = "PAGE_DEV"
                           THEN "ST_STARTMOTOR" ELSE "ST_PREHEAT",
          !.profSelectMode = FALSE]
  ELSE IF key = "D"
  THEN [clearCalCombo(s) EXCEPT
          !.currentPage = IF s.currentPage = "PAGE_DEV"
                          THEN "PAGE_TEMP" ELSE "PAGE_DEV",
          !.stepStoreMode = FALSE, !.profSelectMode = FALSE,
          !.currentState = "ST_DISPLAY_MAINMENU"]
  ELSE s

\* a recall that uses the slot up: it is marked undefined afterwards
stepRecallOnce(s, key) ==
  IF s.currentPage = "PAGE_DEV" /\ key \in Digits \ {"0"}
  THEN LET step == s.settings.devSteps[DigitVal(key)]
       IN IF step.defined # 0
          THEN saveSettings([s EXCEPT
                 !.tMinutes = step.minutes, !.tSeconds = step.seconds,
                 !.theTiming = totalTiming(step.minutes, step.seconds),
                 !.settings.devSteps[DigitVal(key)].defined = 0])
          ELSE s
  ELSE menuKeys(s, key)

\* "3) STEP RECALL (DEV): short press 1..9"
stepRecall(s, key) ==
  IF s.currentPage = "PAGE_DEV" /\ key \in Digits \ {"0"}
  THEN LET step == s.settings.devSteps[DigitVal(key)]
       IN IF step.defined # 0
          THEN saveSettings([s EXCEPT
                 !.tMinutes = step.minutes, !.tSeconds = step.seconds,
                 !.theTiming = totalTiming(step.minutes, step.seconds)])
          ELSE s
  ELSE menuKeys(s, key)

\* a search that takes the entered number as the catalog index
findProfileByIndex(want) ==
  IF want % 256 < NPROFILES THEN want % 256 ELSE NPROFILES

\* the catalog index whose identifier is want, NPROFILES when there is none
findProfile(want) ==
  IF \E i \in 0..(NPROFILES - 1) : profileId(i) = want % 256
  THEN CHOOSE i \in 0..(NPROFILES - 1) : profileId(i) = want % 256
  ELSE NPROFILES

applyJump(s) ==
  LET i == findProfile(atoi(s.profBuf))
      s1 == clearProfBuf(s)
  IN toMainMenu(IF i < NPROFILES
                THEN saveSettings([s1 EXCEPT !.currentProfile = i])
                ELSE s1)

\* "2b) PROFILE SELECT (TEMP): # <1-2 digits> #"
profileSelect(s, key) ==
  IF s.currentPage # "PAGE_TEMP" THEN stepRecall(s, key)
  ELSE IF s.profSelectMode /\ key \in Digits
  THEN IF Len(s.profBuf) < 2
       THEN [s EXCEPT !.profBuf = Append(s.profBuf, key)] ELSE s
  ELSE IF s.profSelectMode /\ key = "#" THEN applyJump(s)
  ELSE
    LET s1 == IF s.profSelectMode THEN clearProfBuf(s) ELSE s
    IN IF key = "0"
       THEN toMainMenu([s1 EXCEPT !.tempDiagMode = ~s1.tempDiagMode])
       ELSE IF key = "#"
       THEN [s1 EXCEPT !.profSelectMode = TRUE, !.profBuf = <<>>]
       ELSE stepRecall(s1, key)

\* "2) STEP PROGRAMMING (DEV): # then digit 1..9"
stepProgramming(s, key) ==
  IF s.currentPage # "PAGE_DEV" THEN profileSelect(s, key)
  ELSE IF key = "#" THEN [s EXCEPT !.stepStoreMode = TRUE]
  ELSE IF s.stepStoreMode
  THEN IF key \in Digits \ {"0"}
       THEN saveSettings([s EXCEPT
              !.settings.devSteps[DigitVal(key)] =
                 [minutes |-> s.tMinutes % 256, seconds |-> s.tSeconds % 256,
                  defined |-> 1],
              !.stepStoreMode = FALSE])
       ELSE profileSelect([s EXCEPT !.stepStoreMode = FALSE], key)
  ELSE profileSelect(s, key)

\* a combo that is accepted on the TEMP page in every operating mode
calComboAnyMode(s, key) ==
  IF s.currentPage = "PAGE_TEMP"
  THEN IF key = "A"
       THEN [s EXCEPT !.awaitCalCombo = TRUE, !.pendingAProfile = TRUE,
                      !.calComboStart = s.now]
       ELSE IF key = "B" /\ s.awaitCalCombo
               /\ s.now - s.calComboStart <= CAL_COMBO_MS
       THEN enterCal(s)
       ELSE IF key = "B" THEN profileBackward(s)
       ELSE stepProgramming(clearCalCombo(s), key)
  ELSE stepProgramming(s, key)

\* "1b) CAL COMBO (TEMP + IDLE): A then B within 800 ms"
calCombo(s, key) ==
  IF s.currentPage = "PAGE_TEMP" /\ s.runMode = "MODE_IDLE"
  THEN IF key = "A"
       THEN [s EXCEPT !.awaitCalCombo = TRUE, !.pendingAProfile = TRUE,
                      !.calComboStart = s.now]
       ELSE IF key = "B" /\ s.awaitCalCombo
               /\ s.now - s.calComboStart <= CAL_COMBO_MS
       THEN enterCal(s)
       ELSE IF key = "B" THEN profileBackward(s)
       ELSE stepProgramming(clearCalCombo(s), key)
  ELSE stepProgramming(s, key)

\* a backlight control whose '#' needs no pending '*'
backlightControlAnyHash(s, key) ==
  IF key = "*"
  THEN IF ~s.backlightOn
       THEN [s EXCEPT !.backlightOn = TRUE, !.awaitOffCombo = FALSE]
       ELSE [s EXCEPT !.awaitOffCombo = TRUE, !.comboStartTime = s.now]
  ELSE IF key = "#" /\ s.backlightOn
  THEN [s EXCEPT !.backlightOn = FALSE, !.awaitOffCombo = FALSE]
  ELSE calCombo([s EXCEPT !.awaitOffCombo = FALSE], key)

\* "1) BACKLIGHT CONTROL: * and * then #"
backlightControl(s, key) ==
  IF key = "*"
  THEN IF ~s.backlightOn
       THEN [s EXCEPT !.backlightOn = TRUE, !.awaitOffCombo = FALSE]
       ELSE [s EXCEPT !.awaitOffCombo = TRUE, !.comboStartTime = s.now]
  ELSE IF key = "#" /\ s.awaitOffCombo
  THEN [s EXCEPT !.backlightOn = FALSE, !.awaitOffCombo = FALSE]
  ELSE calCombo([s EXCEPT !.awaitOffCombo = FALSE], key)

\* case ST_WAIT; key is what keypad.getKey() returns if it is called
caseWait(s, key) ==
  IF aAloneExpired(s) THEN [profileForward(s) EXCEPT !.rawKey = NO_KEY]
  ELSE
    LET s1 == IF s.awaitOffCombo /\ s.now - s.comboStartTime > OFF_COMBO_MS
              THEN [s EXCEPT !.awaitOffCombo = FALSE] ELSE s
        s2 == [s1 EXCEPT !.rawKey = key]
    IN IF key = NO_KEY THEN s2 ELSE backlightControl(s2, key)

\* ------------------------------------------------------------------------
\* Dispatcher: the other cases
\* ------------------------------------------------------------------------
\* getKeypadText() and its use in case ST_SETTIMING_M / ST_SETTIMING_S;
\* isMinutes selects the variable the accepted number is assigned to
caseSetTiming(s, key, isMinutes) ==
  LET s0 == [s EXCEPT !.rawKey = key]
  IN IF key = NO_KEY THEN s0
     ELSE IF key \in {"*", "#"}
     THEN LET text == IF key = "*" THEN <<>> ELSE s.keypadbuffer
              m == IF isMinutes /\ text # <<>> THEN atoi(text) ELSE s.tMinutes
              sec == IF ~isMinutes /\ text # <<>> THEN atoi(text) ELSE s.tSeconds
          IN toMainMenu(saveSettings(
               [s0 EXCEPT !.keypadbuffer = <<>>,
                          !.tMinutes = m, !.tSeconds = sec,
                          !.theTiming = totalTiming(m, sec)]))
     ELSE IF Len(s.keypadbuffer) < 20
     THEN [s0 EXCEPT !.keypadbuffer = Append(s.keypadbuffer, key)]
     ELSE s0

\* case ST_STARTMOTOR
caseStartMotor(s) ==
  LET s1 == runMotor([s EXCEPT !.devPreEndBeepDone = FALSE], "MOTOR_START")
  IN [s1 EXCEPT !.runMode = "MODE_DEV", !.devJustStarted = TRUE,
                !.currentState = "ST_DISPLAY_MAINMENU", !.rawKey = NO_KEY]

\* case ST_PREHEAT
casePreheat(s) ==
  [startPreheatMotor(s) EXCEPT !.currentState = "ST_WAIT", !.rawKey = NO_KEY]

\* calPtrForPage(): read and write the live offset of a calibration page
calGet(s, p) ==
  IF p = "CAL_HTR" THEN s.offHtr_10
  ELSE IF p = "CAL_BATH" THEN s.offBath_10
  ELSE IF p = "CAL_TANK" THEN s.offTank_10
  ELSE s.offBottle_10

calSet(s, p, v) ==
  IF p = "CAL_HTR" THEN [s EXCEPT !.offHtr_10 = v]
  ELSE IF p = "CAL_BATH" THEN [s EXCEPT !.offBath_10 = v]
  ELSE IF p = "CAL_TANK" THEN [s EXCEPT !.offTank_10 = v]
  ELSE [s EXCEPT !.offBottle_10 = v]

CalPages == <<"CAL_HTR", "CAL_BATH", "CAL_TANK", "CAL_BOTTLE">>
calIndex(p) == CHOOSE i \in 1..4 : CalPages[i] = p
calPageStep(p, d) == CalPages[((calIndex(p) - 1 + d) % 4) + 1]

\* "Exit without saving: restore globals from EEPROM-backed settings"
calDiscard(s) ==
  [s EXCEPT !.offHtr_10 = s.settings.offHtr_10,
            !.offBath_10 = s.settings.offBath_10,
            !.offTank_10 = s.settings.offTank_10,
            !.offBottle_10 = s.settings.offBottle_10]

\* case ST_CAL
caseCal(s, key) ==
  LET s0 == [s EXCEPT !.rawKey = key]
      v == calGet(s, s.calPage)
  IN IF key = "#"
     THEN [s0 EXCEPT !.calPage = calPageStep(s.calPage, 1), !.calIncr = 0]
     ELSE IF key = "*"
     THEN [s0 EXCEPT !.calPage = calPageStep(s.calPage, 3), !.calIncr = 0]
     ELSE IF key = "A"
     THEN IF v < CAL_MAX_10
          THEN [calSet(s0, s.calPage, v + 1) EXCEPT !.calIncr = s.calIncr + 1]
          ELSE s0
     ELSE IF key = "B"
     THEN IF v > -CAL_MAX_10
          THEN [calSet(s0, s.calPage, v - 1) EXCEPT !.calIncr = s.calIncr - 1]
          ELSE s0
     ELSE IF key = "C" THEN toMainMenu(saveSettings(s0))
     ELSE IF key = "D" THEN toMainMenu(calDiscard(s0))
     ELSE s0

\* case ST_IDLE
caseIdle(s) ==
  LET s1 == IF s.runMode = "MODE_PREHEAT" THEN stopPreheatMotor(s)
            ELSE [runMotor(s, "MOTOR_FORCESTOP") EXCEPT !.runMode = "MODE_IDLE"]
  IN [s1 EXCEPT !.currentState = "ST_WAIT", !.rawKey = NO_KEY]

\* case ST_DISPLAY_MAINMENU
caseMainMenu(s) == [s EXCEPT !.currentState = "ST_WAIT", !.rawKey = NO_KEY]

\* ------------------------------------------------------------------------
\* Initial state: the globals after setup()
\* ------------------------------------------------------------------------
\* a load that accepts a record of any version
loadedRecordUnchecked(rec) == rec

\* loadSettings(): EEPROM.get, with the reset on a version mismatch
loadedRecord(rec) ==
  IF rec.version # SETTINGS_VERSION THEN DefaultSettings ELSE rec

\* loadSettings(): the aggregate read (and rewritten on a mismatch), then the
\* live timing, offsets and profile taken from it
loadSettings(s) ==
  LET rec == loadedRecord(s.eeprom)
  IN [s EXCEPT
        !.settings = rec, !.eeprom = rec,
        !.tMinutes = rec.tMinutes, !.tSeconds = rec.tSeconds,
        !.offHtr_10 = rec.offHtr_10, !.offBath_10 = rec.offBath_10,
        !.offTank_10 = rec.offTank_10, !.offBottle_10 = rec.offBottle_10,
        !.currentProfile =
           IF rec.profileIndex < NPROFILES THEN rec.profileIndex ELSE 1,
        !.factoryResets =
           IF s.eeprom.version # SETTINGS_VERSION THEN @ + 1 ELSE @]

\* the state at the end of setup() when the EEPROM holds rec, the speed pot
\* stands at pot and the bath sensor reads bath
Boot(rec, pot, bath) ==
  LET r == loadedRecord(rec)
  IN /\ now = BootMs /\ rawKey = NO_KEY
     /\ currentState = "ST_DISPLAY_MAINMENU" /\ currentPage = "PAGE_DEV"
     /\ runMode = "MODE_IDLE"
     /\ awaitCalCombo = FALSE /\ pendingAProfile = FALSE /\ calComboStart = 0
     /\ awaitOffCombo = FALSE /\ comboStartTime = 0 /\ backlightOn = TRUE
     /\ stepStoreMode = FALSE /\ profSelectMode = FALSE /\ profBuf = <<>>
     /\ tempDiagMode = FALSE /\ calPage = "CAL_HTR" /\ keypadbuffer = <<>>
     /\ settings = r /\ eeprom = r
     /\ tMinutes = r.tMinutes /\ tSeconds = r.tSeconds
     /\ theTiming = totalTiming(r.tMinutes, r.tSeconds)
     /\ currentProfile = IF r.profileIndex < NPROFILES THEN r.profileIndex ELSE 1
     /\ offHtr_10 = r.offHtr_10 /\ offBath_10 = r.offBath_10
     /\ offTank_10 = r.offTank_10 /\ offBottle_10 = r.offBottle_10
     /\ motorRunStartTime = 0 /\ motorCycleStartTime = 0
     /\ currentStateMotor = "MOTOR_FORCESTOP" /\ wMotor = 0
     /\ RPWM = 0 /\ LPWM = 0
     /\ potValue = pot /\ wTank = wTankInt /\ lastWTank = 0
     /\ theCycleTiming = cycleTiming(wTankInt)
     /\ breakCycleTime = cycleTiming(wTankInt) - accelCycleTime
     /\ nextSpeedUpdate = 0 /\ pwmPreheat = 150
     /\ beepActive = FALSE /\ beepEndTime = 0
     /\ devPreEndBeepDone = FALSE /\ lastRemaining = 0
     /\ preheatReady = FALSE /\ preheatReadyBeepDone = FALSE
     /\ preheatStartTimeMs = 0
     /\ inBandStartMs = 0 /\ readyLatched = FALSE /\ lastProf = 255
     /\ showMenuAfterStop = FALSE /\ stopTimeMs = 0
     /\ sensBath = bath /\ requested = FALSE /\ nextTempUpdateMs = 0
     /\ tempBathC = INVALID_10 /\ devJustStarted = FALSE
     /\ tempTankC = INVALID_10 /\ tempBottleC = INVALID_10
     /\ tempMeanC = INVALID_10 * FINE /\ tempDevC = INVALID_10 * FINE
     /\ tempHtrSetC = INVALID_10
     /\ runCompleted = 0 /\ calIncr = 0 /\ command = "NO_COMMAND" /\ nKeys = 0
     /\ factoryResets = IF rec.version # SETTINGS_VERSION THEN 1 ELSE 0
     /\ holdRestarted = FALSE

\* a stored record with the current version tag
Record(m, sec, prof, off) ==
  [DefaultSettings EXCEPT !.tMinutes = m, !.tSeconds = sec,
     !.profileIndex = prof,
     !.offHtr_10 = off, !.offBath_10 = off, !.offTank_10 = off,
     !.offBottle_10 = off]

\* ------------------------------------------------------------------------
\* Actions: one loop() iteration per dispatcher case.  dt is the time that
\* has passed since the previous iteration; K are the keys the user may press
\* ------------------------------------------------------------------------
\* the state at the switch of an iteration that starts dt ms after the last
AtSwitch(dt) ==
  loopService([St EXCEPT !.now = now + dt, !.runCompleted = 0])

\* the end of an iteration: count the key it has read
Done(t) ==
  \E u \in {[t EXCEPT !.nKeys = IF t.rawKey = NO_KEY THEN t.nKeys
                                 ELSE t.nKeys + 1]} : Assign(u)

\* the keys offered to an iteration: K until n keys have been read
Offer(K, n) == IF nKeys < n THEN K \cup {NO_KEY} ELSE {NO_KEY}

\* the clock steps of an iteration: none or one tick, up to the horizon
Ticks(tick, horizon) == {dt \in {0, tick} : now + dt <= horizon}

LoopMainMenu(dt) ==
  \E s \in {AtSwitch(dt)} :
     /\ s.currentState = "ST_DISPLAY_MAINMENU"
     /\ Done(caseMainMenu(s))

LoopWait(K, dt) ==
  \E s \in {AtSwitch(dt)} :
     /\ s.currentState = "ST_WAIT"
     /\ \E key \in K : Done(caseWait(s, key))

\* the keys of K typed into a numeric entry: digits until n characters are
\* in the buffer, then only the two closing keys
TypedUpTo(K, n) ==
  IF Len(keypadbuffer) < n
  THEN K \cap (Digits \cup {NO_KEY, "*", "#"})
  ELSE K \cap {NO_KEY, "*", "#"}

Typed(K) == TypedUpTo(K, MaxEntryLen)

LoopSetTimingM(K, dt) ==
  \E s \in {AtSwitch(dt)} :
     /\ s.currentState = "ST_SETTIMING_M"
     /\ \E key \in K : Done(caseSetTiming(s, key, TRUE))

LoopSetTimingS(K, dt) ==
  \E s \in {AtSwitch(dt)} :
     /\ s.currentState = "ST_SETTIMING_S"
     /\ \E key \in K : Done(caseSetTiming(s, key, FALSE))

LoopStartMotor(dt) ==
  \E s \in {AtSwitch(dt)} :
     /\ s.currentState = "ST_STARTMOTOR"
     /\ Done(caseStartMotor(s))

LoopPreheat(dt) ==
  \E s \in {AtSwitch(dt)} :
     /\ s.currentState = "ST_PREHEAT"
     /\ Done(casePreheat(s))

LoopCal(K, dt) ==
  \E s \in {AtSwitch(dt)} :
     /\ s.currentState = "ST_CAL"
     /\ \E key \in K : Done(caseCal(s, key))

LoopIdle(dt) ==
  \E s \in {AtSwitch(dt)} :
     /\ s.currentState = "ST_IDLE"
     /\ Done(caseIdle(s))

\* ------------------------------------------------------------------------
\* SpecRun: development runs on the DEV page, seconds edited with B, pages
\* switched with D.  The stored duration is 0, 1 or 2 s
\* ------------------------------------------------------------------------
RunMaxKeys == 5
RunTickMs == 1000
RunMaxTime == 5000
KeysRun == Offer({"C", "D", "B", "9", "#"}, RunMaxKeys)

InitRun ==
  \E sec \in 0..2 : Boot(Record(0, sec, 1, 0), 512, DEVICE_DISCONNECTED_10)

StepsRun == Ticks(RunTickMs, RunMaxTime)

NextRun ==
  \/ \E dt \in StepsRun : LoopMainMenu(dt)
  \/ \E dt \in StepsRun : LoopWait(KeysRun, dt)
  \/ \E dt \in StepsRun : LoopSetTimingS(Typed(KeysRun), dt)
  \/ \E dt \in StepsRun : LoopStartMotor(dt)
  \/ \E dt \in StepsRun : LoopPreheat(dt)
  \/ \E dt \in StepsRun : LoopIdle(dt)

SpecRun == InitRun /\ [][NextRun]_vars

\* ------------------------------------------------------------------------
\* FairRun: runs of 1 or 2 s under a loop that is called again and again
\* while millis() advances; the user edits minutes or seconds, switches the
\* page, starts and stops
\* ------------------------------------------------------------------------
LiveMaxKeys == 4
LiveTickMs == 1000
LiveMaxTime == 5000
KeysLive == Offer({"A", "B", "C", "D", "#"}, LiveMaxKeys)

InitLive ==
  \E sec \in 1..2 : Boot(Record(0, sec, 1, 0), 512, DEVICE_DISCONNECTED_10)

StepsLive == Ticks(LiveTickMs, LiveMaxTime)

NextLive ==
  \/ \E dt \in StepsLive : LoopMainMenu(dt)
  \/ \E dt \in StepsLive : LoopWait(KeysLive, dt)
  \/ \E dt \in StepsLive : LoopSetTimingM(Typed(KeysLive), dt)
  \/ \E dt \in StepsLive : LoopSetTimingS(Typed(KeysLive), dt)
  \/ \E dt \in StepsLive : LoopStartMotor(dt)
  \/ \E dt \in StepsLive : LoopPreheat(dt)
  \/ \E dt \in StepsLive : LoopCal(KeysLive, dt)
  \/ \E dt \in StepsLive : LoopIdle(dt)

\* millis() as seen by successive iterations: a tick later (and the kick
\* delay of a preheat start).  Whatever the dispatcher state, NextLive has an
\* iteration for it, so such a step is possible until the last tick
ClockAdvances ==
  /\ now + LiveTickMs <= LiveMaxTime
  /\ now' \in {now + LiveTickMs, now + LiveTickMs + KICK_DELAY_MS}

\* loop() is called again and again while millis() advances
FairRun == InitLive /\ [][NextLive]_vars /\ WF_now(ClockAdvances)

\* ------------------------------------------------------------------------
\* SpecStop: runs and preheats started and stopped with C on either page,
\* followed long enough for the preheat fallback time to pass
\* ------------------------------------------------------------------------
StopMaxKeys == 4
StopTickMs == 5000
StopMaxTime == 13000
KeysStop == Offer({"C", "D"}, StopMaxKeys)

InitStop ==
  \E sec \in {6, 20} : Boot(Record(0, sec, 1, 0), 512, DEVICE_DISCONNECTED_10)

StepsStop == Ticks(StopTickMs, StopMaxTime)

NextStop ==
  \/ \E dt \in StepsStop : LoopMainMenu(dt)
  \/ \E dt \in StepsStop : LoopWait(KeysStop, dt)
  \/ \E dt \in StepsStop : LoopStartMotor(dt)
  \/ \E dt \in StepsStop : LoopPreheat(dt)
  \/ \E dt \in StepsStop : LoopIdle(dt)

SpecStop == InitStop /\ [][NextStop]_vars

\* ------------------------------------------------------------------------
\* SpecMotor: the motor controller alone.  runMotor() is called with any
\* command at any tick; the speed adapter runs at any tick with the pot at
\* mid-scale or fully clockwise
\* ------------------------------------------------------------------------
MotorTickMs == 1000
MotorMaxTime == 8000

InitMotor ==
  \E sec \in {0, 4}, pot \in {512, 1023} :
    Boot(Record(0, sec, 1, 0), pot, DEVICE_DISCONNECTED_10)

MotorTick ==
  /\ now + MotorTickMs <= MotorMaxTime
  /\ \E t \in {[St EXCEPT !.now = now + MotorTickMs]} : Assign(t)

Called == now <= MotorMaxTime

\* a call of runMotor(); runCompleted counts the signals of this call
Call(cmd) ==
  \E t \in {runMotor([St EXCEPT !.runCompleted = 0], cmd)} : Assign(t)

MotorStart == Called /\ Call("MOTOR_START")

MotorContinue == Called /\ Call("MOTOR_CONTINUE")

MotorForceStop == Called /\ Call("MOTOR_FORCESTOP")

MotorSpeed == Called /\ \E t \in {setTankSpeed(St)} : Assign(t)

NextMotor ==
  \/ MotorTick
  \/ MotorStart
  \/ MotorContinue
  \/ MotorForceStop
  \/ MotorSpeed

SpecMotor == InitMotor /\ [][NextMotor]_vars

\* ------------------------------------------------------------------------
\* SpecCal: a stored duration of 1 s and the keys A, B, C, D: runs, preheats,
\* profile steps and calibration sessions
\* ------------------------------------------------------------------------
CalMaxKeys == 8
CalTickMs == 3000
CalMaxTime == 8000
KeysCal == Offer({"A", "B", "C", "D"}, CalMaxKeys)

InitCal == Boot(Record(0, 1, 1, 0), 512, DEVICE_DISCONNECTED_10)

StepsCal == Ticks(CalTickMs, CalMaxTime)

NextCal ==
  \/ \E dt \in StepsCal : LoopMainMenu(dt)
  \/ \E dt \in StepsCal : LoopWait(KeysCal, dt)
  \/ \E dt \in StepsCal : LoopSetTimingM(Typed(KeysCal), dt)
  \/ \E dt \in StepsCal : LoopSetTimingS(Typed(KeysCal), dt)
  \/ \E dt \in StepsCal : LoopStartMotor(dt)
  \/ \E dt \in StepsCal : LoopPreheat(dt)
  \/ \E dt \in StepsCal : LoopCal(KeysCal, dt)
  \/ \E dt \in StepsCal : LoopIdle(dt)

SpecCal == InitCal /\ [][NextCal]_vars

\* ------------------------------------------------------------------------
\* SpecCombo: the A / B keys around the 800 ms deadline, from either end of
\* the profile catalog
\* ------------------------------------------------------------------------
ComboMaxKeys == 5
ComboTickMs == 400
ComboMaxTime == 3600
KeysCombo == Offer({"A", "B", "C", "D", "*"}, ComboMaxKeys)

InitCombo ==
  \E prof \in {0, NPROFILES - 1} :
    Boot(Record(0, 1, prof, 0), 512, DEVICE_DISCONNECTED_10)

StepsCombo == Ticks(ComboTickMs, ComboMaxTime)

NextCombo ==
  \/ \E dt \in StepsCombo : LoopMainMenu(dt)
  \/ \E dt \in StepsCombo : LoopWait(KeysCombo, dt)
  \/ \E dt \in StepsCombo : LoopSetTimingM(Typed(KeysCombo), dt)
  \/ \E dt \in StepsCombo : LoopSetTimingS(Typed(KeysCombo), dt)
  \/ \E dt \in StepsCombo : LoopStartMotor(dt)
  \/ \E dt \in StepsCombo : LoopPreheat(dt)
  \/ \E dt \in StepsCombo : LoopCal(KeysCombo, dt)
  \/ \E dt \in StepsCombo : LoopIdle(dt)

SpecCombo == InitCombo /\ [][NextCombo]_vars

\* ------------------------------------------------------------------------
\* SpecJump: the profile jump "# <digits> #" on the TEMP page and the keys
\* that interrupt it
\* ------------------------------------------------------------------------
JumpMaxKeys == 6
JumpTickMs == 1000
JumpMaxTime == 4000
KeysJump ==
  Offer({"#", "1", "5", "A", "B", "C", "D", "*"}, JumpMaxKeys)

InitJump == Boot(Record(0, 1, 1, 0), 512, DEVICE_DISCONNECTED_10)

StepsJump == Ticks(JumpTickMs, JumpMaxTime)

NextJump ==
  \/ \E dt \in StepsJump : LoopMainMenu(dt)
  \/ \E dt \in StepsJump : LoopWait(KeysJump, dt)
  \/ \E dt \in StepsJump : LoopSetTimingM(Typed(KeysJump), dt)
  \/ \E dt \in StepsJump : LoopSetTimingS(Typed(KeysJump), dt)
  \/ \E dt \in StepsJump : LoopStartMotor(dt)
  \/ \E dt \in StepsJump : LoopPreheat(dt)
  \/ \E dt \in StepsJump : LoopCal(KeysJump, dt)
  \/ \E dt \in StepsJump : LoopIdle(dt)

SpecJump == InitJump /\ [][NextJump]_vars

\* ------------------------------------------------------------------------
\* SpecEntry: the numeric entry of minutes and seconds, with entries long
\* enough to leave the range of int
\* ------------------------------------------------------------------------
EntryMaxKeys == 7
EntryMaxDigits == 5
EntryTickMs == 1000
EntryMaxTime == 3000
KeysEntry == Offer({"A", "B", "3", "9", "#", "*"}, EntryMaxKeys)

InitEntry == Boot(Record(5, 0, 1, 0), 512, DEVICE_DISCONNECTED_10)

StepsEntry == Ticks(EntryTickMs, EntryMaxTime)

NextEntry ==
  \/ \E dt \in StepsEntry : LoopMainMenu(dt)
  \/ \E dt \in StepsEntry : LoopWait(KeysEntry, dt)
  \/ \E dt \in StepsEntry :
       LoopSetTimingM(TypedUpTo(KeysEntry, EntryMaxDigits), dt)
  \/ \E dt \in StepsEntry :
       LoopSetTimingS(TypedUpTo(KeysEntry, EntryMaxDigits), dt)

SpecEntry == InitEntry /\ [][NextEntry]_vars

\* ------------------------------------------------------------------------
\* SpecStep: storing and recalling development steps on the DEV page, from
\* stored times inside and outside the range of a step's fields
\* ------------------------------------------------------------------------
StepMaxKeys == 5
StepTickMs == 1000
StepMaxTime == 3000
KeysStep ==
  Offer({"#", "1", "2", "0", "A", "B", "C", "D", "*"}, StepMaxKeys)

InitStep ==
  \E m \in {1, 300} :
    Boot(Record(m, 7, 1, 0), 512, DEVICE_DISCONNECTED_10)

StepsStep == Ticks(StepTickMs, StepMaxTime)

NextStep ==
  \/ \E dt \in StepsStep : LoopMainMenu(dt)
  \/ \E dt \in StepsStep : LoopWait(KeysStep, dt)
  \/ \E dt \in StepsStep : LoopSetTimingM(Typed(KeysStep), dt)
  \/ \E dt \in StepsStep : LoopSetTimingS(Typed(KeysStep), dt)
  \/ \E dt \in StepsStep : LoopStartMotor(dt)
  \/ \E dt \in StepsStep : LoopPreheat(dt)
  \/ \E dt \in StepsStep : LoopIdle(dt)

SpecStep == InitStep /\ [][NextStep]_vars

\* ------------------------------------------------------------------------
\* SpecEdit: numeric entries opened while a run is in progress or has just
\* finished
\* ------------------------------------------------------------------------
EditMaxKeys == 5
EditTickMs == 2000
EditMaxTime == 8000
KeysEdit == Offer({"A", "B", "C", "3", "#", "*"}, EditMaxKeys)

InitEdit == Boot(Record(0, 1, 1, 0), 512, DEVICE_DISCONNECTED_10)

StepsEdit == Ticks(EditTickMs, EditMaxTime)

NextEdit ==
  \/ \E dt \in StepsEdit : LoopMainMenu(dt)
  \/ \E dt \in StepsEdit : LoopWait(KeysEdit, dt)
  \/ \E dt \in StepsEdit : LoopSetTimingM(Typed(KeysEdit), dt)
  \/ \E dt \in StepsEdit : LoopSetTimingS(Typed(KeysEdit), dt)
  \/ \E dt \in StepsEdit : LoopStartMotor(dt)
  \/ \E dt \in StepsEdit : LoopIdle(dt)

SpecEdit == InitEdit /\ [][NextEdit]_vars

\* ------------------------------------------------------------------------
\* SpecLight: the keys * and # around the 1000 ms window, on both pages
\* ------------------------------------------------------------------------
LightMaxKeys == 5
LightTickMs == 500
LightMaxTime == 4000
KeysLight == Offer({"*", "#", "D", "2"}, LightMaxKeys)

InitLight == Boot(Record(0, 1, 1, 0), 512, DEVICE_DISCONNECTED_10)

StepsLight == Ticks(LightTickMs, LightMaxTime)

NextLight ==
  \/ \E dt \in StepsLight : LoopMainMenu(dt)
  \/ \E dt \in StepsLight : LoopWait(KeysLight, dt)

SpecLight == InitLight /\ [][NextLight]_vars

\* ------------------------------------------------------------------------
\* SpecStore: saveSettings() and loadSettings() on live values from the
\* ends and the middle of their ranges, after a boot from a record of the
\* current or of another version
\* ------------------------------------------------------------------------
\* power-ups on a foreign record that are explored
MaxResets == 2

\* a record of another version with every field set
ForeignRecord ==
  [version |-> 3, tMinutes |-> 77, tSeconds |-> 99,
   devSteps |-> [i \in 0..9 |-> [minutes |-> 9, seconds |-> 9, defined |-> 1]],
   profileIndex |-> 200,
   offHtr_10 |-> 123, offBath_10 |-> -123, offTank_10 |-> 45,
   offBottle_10 |-> -45]

\* records whose version tag is not the current one
Mismatched ==
  {[r EXCEPT !.version = v] :
     r \in {ForeignRecord, Record(1, 2, 3, 4)}, v \in {0, 3, 5, 65535}}

StoreRecords ==
  Mismatched
  \cup {Record(0, 1, 1, 0),
        [ForeignRecord EXCEPT !.version = SETTINGS_VERSION,
                              !.profileIndex = 16]}

InitStore ==
  \E rec \in StoreRecords : Boot(rec, 512, DEVICE_DISCONNECTED_10)

\* the harness works on the state setup() has left
AfterSetup == currentState = "ST_DISPLAY_MAINMENU" /\ now = BootMs

\* the assignments a handler makes to the live values before it saves
StoreEdit ==
  /\ AfterSetup
  /\ \E m \in {0, 300, 65535}, sec \in {0, 59}, prof \in {0, 16},
        off \in {-999, 999} :
       Assign([St EXCEPT !.tMinutes = m, !.tSeconds = sec,
                         !.currentProfile = prof,
                         !.offHtr_10 = off, !.offBath_10 = -off,
                         !.offTank_10 = off, !.offBottle_10 = -off])

StoreSave == AfterSetup /\ \E t \in {saveSettings(St)} : Assign(t)

\* loadSettings() as setup() calls it at a power-up, on the record storage
\* then holds: the one last written, or one left by other firmware
StoreLoad ==
  /\ AfterSetup
  /\ \E g \in Mismatched \cup {eeprom} :
       /\ g \in Mismatched => factoryResets < MaxResets
       /\ Assign(loadSettings([St EXCEPT !.eeprom = g]))

NextStore ==
  \/ StoreEdit
  \/ StoreSave
  \/ StoreLoad

SpecStore == InitStore /\ [][NextStore]_vars

\* ------------------------------------------------------------------------
\* SpecWarn: development runs of 5 and 6 s, started and stopped with C,
\* while the user switches between the DEV and the TEMP page with D
\* ------------------------------------------------------------------------
WarnMaxKeys == 4
WarnTickMs == 500
WarnMaxTime == 9000
KeysWarn == Offer({"C", "D"}, WarnMaxKeys)

InitWarn ==
  \E sec \in {5, 6} : Boot(Record(0, sec, 1, 0), 512, DEVICE_DISCONNECTED_10)

StepsWarn == Ticks(WarnTickMs, WarnMaxTime)

NextWarn ==
  \/ \E dt \in StepsWarn : LoopMainMenu(dt)
  \/ \E dt \in StepsWarn : LoopWait(KeysWarn, dt)
  \/ \E dt \in StepsWarn : LoopStartMotor(dt)
  \/ \E dt \in StepsWarn : LoopPreheat(dt)
  \/ \E dt \in StepsWarn : LoopIdle(dt)

SpecWarn == InitWarn /\ [][NextWarn]_vars

\* ------------------------------------------------------------------------
\* SpecBeep: a development run of 6 s started after the processor has been
\* left switched on and idle until millis() is about to wrap (about 49.7
\* days after power-up).  millis() is held as its value minus 2^32 until
\* the wrap
\* ------------------------------------------------------------------------
BeepMaxKeys == 2
BeepTickMs == 500
BeepMaxTime == 6000
WrapLeadMs == 1400
KeysBeep == Offer({"C"}, BeepMaxKeys)

InitBeep == Boot(Record(0, 6, 1, 0), 512, DEVICE_DISCONNECTED_10)

StepsBeep == Ticks(BeepTickMs, BeepMaxTime)

\* nothing is running, pending or sounding: iterations only keep time
Quiet ==
  /\ currentState = "ST_WAIT" /\ runMode = "MODE_IDLE"
  /\ motorRunStartTime = 0 /\ ~showMenuAfterStop /\ ~beepActive
  /\ ~awaitCalCombo /\ ~awaitOffCombo /\ ~stepStoreMode /\ ~profSelectMode

\* the iteration of an idle loop that runs WrapLeadMs before the wrap
LoopWaitUntilWrap ==
  /\ Quiet /\ now = BootMs
  /\ \E s \in {AtSwitch((0 - WrapLeadMs) - now)} :
       /\ s.currentState = "ST_WAIT"
       /\ Done(caseWait(s, NO_KEY))

NextBeep ==
  \/ \E dt \in StepsBeep : LoopMainMenu(dt)
  \/ \E dt \in StepsBeep : LoopWait(KeysBeep, dt)
  \/ LoopWaitUntilWrap
  \/ \E dt \in StepsBeep : LoopStartMotor(dt)
  \/ \E dt \in StepsBeep : LoopIdle(dt)

SpecBeep == InitBeep /\ [][NextBeep]_vars

\* ------------------------------------------------------------------------
\* SpecCycle: the speed adapter and the motor controller on a fine clock,
\* so that calls fall into every phase of a cycle and on its boundaries.
\* The stored duration is 5 s, the run is started within the first ticks,
\* and the pot is turned between mid-scale, a position one RPM above it
\* and its two ends at any time
\* ------------------------------------------------------------------------
CycleTickMs == 150
CycleMaxTime == 8000
CycleStartBy == 2300
\* mid-scale (71 RPM), a little above it (72 RPM) and the two ends
PotValues == {0, 512, 546, 1023}

InitCycle ==
  \E pot \in PotValues : Boot(Record(0, 5, 1, 0), pot, DEVICE_DISCONNECTED_10)

\* the next iteration: setTankSpeed() samples the pot before the motor call
CycleTick ==
  /\ now + CycleTickMs <= CycleMaxTime
  /\ \E t \in {setTankSpeed([St EXCEPT !.now = now + CycleTickMs])} : Assign(t)

\* the user turns the pot
CyclePot ==
  /\ now < CycleMaxTime
  /\ \E pot \in PotValues \ {potValue} : Assign([St EXCEPT !.potValue = pot])

CycleStart == now <= CycleStartBy /\ Call("MOTOR_START")

CycleContinue == now <= CycleMaxTime /\ Call("MOTOR_CONTINUE")

CycleForceStop == now <= CycleMaxTime /\ Call("MOTOR_FORCESTOP")

NextCycle ==
  \/ CycleTick
  \/ CyclePot
  \/ CycleStart
  \/ CycleContinue
  \/ CycleForceStop

SpecCycle == InitCycle /\ [][NextCycle]_vars

\* ------------------------------------------------------------------------
\* SpecDuty: the whole loop on a fine clock: development runs of 3 s (one
\* reversal) and preheats, started and stopped with C on either page, while
\* the pot is turned between its two ends
\* ------------------------------------------------------------------------
DutyMaxKeys == 3
DutyTickMs == 250
DutyMaxTime == 5500
KeysDuty == Offer({"C", "D"}, DutyMaxKeys)

InitDuty ==
  \E pot \in {0, 1023} : Boot(Record(0, 3, 1, 0), pot, DEVICE_DISCONNECTED_10)

StepsDuty == Ticks(DutyTickMs, DutyMaxTime)

\* the user turns the pot from one end to the other
DutyPot ==
  /\ now < DutyMaxTime
  /\ \E pot \in {0, 1023} \ {potValue} : Assign([St EXCEPT !.potValue = pot])

NextDuty ==
  \/ \E dt \in StepsDuty : LoopMainMenu(dt)
  \/ \E dt \in StepsDuty : LoopWait(KeysDuty, dt)
  \/ \E dt \in StepsDuty : LoopStartMotor(dt)
  \/ \E dt \in StepsDuty : LoopPreheat(dt)
  \/ \E dt \in StepsDuty : LoopIdle(dt)
  \/ DutyPot

SpecDuty == InitDuty /\ [][NextDuty]_vars

\* ------------------------------------------------------------------------
\* SpecSpeed: the speed adapter alone, with the pot at every value of the
\* ADC at boot and left there or turned to the mirrored position before a
\* sample
\* ------------------------------------------------------------------------
SpeedTickMs == 200
SpeedMaxTime == 2600
AdcMax == 1023

InitSpeed ==
  \E pot \in 0..AdcMax : Boot(Record(0, 5, 1, 0), pot, DEVICE_DISCONNECTED_10)

\* an iteration of the loop one tick later: analogRead, then the sampling
SpeedSample ==
  /\ now + SpeedTickMs <= SpeedMaxTime
  /\ \E pot \in {potValue, AdcMax - potValue} :
       Assign(setTankSpeed([St EXCEPT !.now = now + SpeedTickMs,
                                      !.potValue = pot]))

NextSpeed ==
  \/ SpeedSample

SpecSpeed == InitSpeed /\ [][NextSpeed]_vars

\* ------------------------------------------------------------------------
\* SpecReady: a preheat for the C41 profile (38.0 C) started with D and C,
\* while the bath reading stays at the target, drifts 0.4 or 0.6 C above it
\* or is lost, and the user jumps to the E6 profile (also 38.0 C) with #3#
\* ------------------------------------------------------------------------
ReadyMaxKeys == 5
ReadyTickMs == 10000
ReadyMaxTime == 62000
KeysReady == Offer({"D", "C", "#", "3"}, ReadyMaxKeys)
BathReadings == {380, 384, 386, DEVICE_DISCONNECTED_10}

InitReady == Boot(Record(0, 1, 1, 0), 512, 380)

StepsReady == Ticks(ReadyTickMs, ReadyMaxTime)

\* the bath sensor returns another reading from now on
ReadyBath ==
  /\ runMode = "MODE_PREHEAT" /\ now < ReadyMaxTime
  /\ \E bath \in BathReadings \ {sensBath} :
       Assign([St EXCEPT !.sensBath = bath])

NextReady ==
  \/ \E dt \in StepsReady : LoopMainMenu(dt)
  \/ \E dt \in StepsReady : LoopWait(KeysReady, dt)
  \/ \E dt \in StepsReady : LoopPreheat(dt)
  \/ \E dt \in StepsReady : LoopIdle(dt)
  \/ ReadyBath

SpecReady == InitReady /\ [][NextReady]_vars

\* ------------------------------------------------------------------------
\* SpecLag: the 1 Hz thermal block while the bath reading steps between
\* 20.0 C and 38.0 C or is lost, in Idle, during a preheat (D, C) and
\* during a one-minute run (C), for tanks of 40, 330 and 1000 ml
\* ------------------------------------------------------------------------
LagMaxKeys == 2
LagTickMs == 1000
LagMaxTime == 12000
KeysLag == Offer({"D", "C"}, LagMaxKeys)
LagReadings == {200, 380, DEVICE_DISCONNECTED_10}

InitLag ==
  \E prof \in {1, 7, 9} : \E bath \in {200, 380} :
     Boot(Record(1, 0, prof, 0), 512, bath)

StepsLag == Ticks(LagTickMs, LagMaxTime)

\* the bath sensor returns another reading from now on
LagBath ==
  /\ requested /\ now < LagMaxTime
  /\ \E bath \in LagReadings \ {sensBath} :
       Assign([St EXCEPT !.sensBath = bath])

NextLag ==
  \/ \E dt \in StepsLag : LoopMainMenu(dt)
  \/ \E dt \in StepsLag : LoopWait(KeysLag, dt)
  \/ \E dt \in StepsLag : LoopStartMotor(dt)
  \/ \E dt \in StepsLag : LoopPreheat(dt)
  \/ LagBath

SpecLag == InitLag /\ [][NextLag]_vars

\* ------------------------------------------------------------------------
\* SpecTemps: the thermal block applied to samples of three addressed
\* sensors (each reading a temperature or DEVICE_DISCONNECTED_C), in Idle,
\* during a preheat and during a run, for three profiles and calibration
\* offsets of 0 or 3.0 C
\* ------------------------------------------------------------------------
TempsMaxTime == 4300
TempsMaxKeys == 2
BathSamples == {DEVICE_DISCONNECTED_10, -400, 400, 990}
TankSamples == {DEVICE_DISCONNECTED_10, 378}
BottleSamples == {DEVICE_DISCONNECTED_10, -400, 375, 990}

InitTemps ==
  \E prof \in {0, 1, 10} : \E off \in {0, 30} :
     Boot(Record(1, 0, prof, off), 512, DEVICE_DISCONNECTED_10)

\* updateTemps1Hz() with the three samples read, then updateDerivedTemps()
\* and updateHtrSuggestion1Hz()
TempsUpdate ==
  /\ now + TEMP_UPDATE_INTERVAL_MS <= TempsMaxTime
  /\ \E tBath \in BathSamples : \E tTank \in TankSamples :
     \E tBot \in BottleSamples :
       Assign(updateHtrSuggestion1Hz(updateDerivedTemps(
         [St EXCEPT
            !.now = now + TEMP_UPDATE_INTERVAL_MS,
            !.nextTempUpdateMs = now + 2 * TEMP_UPDATE_INTERVAL_MS,
            !.requested = FALSE, !.sensBath = tBath,
            !.tempBathC = calibrated(tBath, offBath_10),
            !.tempTankC = calibrated(tTank, offTank_10),
            !.tempBottleC = calibrated(tBot, offBottle_10)])))

\* the dispatcher cases that key C leads to, one key each
TempsStart ==
  /\ runMode = "MODE_IDLE" /\ nKeys < TempsMaxKeys
  /\ Assign([caseStartMotor(St) EXCEPT !.nKeys = nKeys + 1])
TempsPreheat ==
  /\ runMode = "MODE_IDLE" /\ nKeys < TempsMaxKeys
  /\ Assign([casePreheat(St) EXCEPT !.nKeys = nKeys + 1])
TempsStop ==
  /\ runMode # "MODE_IDLE" /\ nKeys < TempsMaxKeys
  /\ Assign([caseIdle(St) EXCEPT !.nKeys = nKeys + 1])

NextTemps == TempsUpdate \/ TempsStart \/ TempsPreheat \/ TempsStop

SpecTemps == InitTemps /\ [][NextTemps]_vars

\* ------------------------------------------------------------------------
\* SpecZero: preheats and development runs started around the wrap of
\* millis(), on a clock whose iterations fall on the wrap itself: the
\* iteration after the wrap reads millis() = 0
\* ------------------------------------------------------------------------
ZeroMaxKeys == 4
ZeroTickMs == 700
ZeroMaxTime == 2100
KeysZero == Offer({"C", "D"}, ZeroMaxKeys)

InitZero == Boot(Record(0, 1, 1, 0), 512, DEVICE_DISCONNECTED_10)

StepsZero == Ticks(ZeroTickMs, ZeroMaxTime)

NextZero ==
  \/ \E dt \in StepsZero : LoopMainMenu(dt)
  \/ \E dt \in StepsZero : LoopWait(KeysZero, dt)
  \/ LoopWaitUntilWrap
  \/ \E dt \in StepsZero : LoopStartMotor(dt)
  \/ \E dt \in StepsZero : LoopPreheat(dt)
  \/ \E dt \in StepsZero : LoopIdle(dt)

SpecZero == InitZero /\ [][NextZero]_vars

\* ------------------------------------------------------------------------
\* SpecProfile: the active profile after a power-up on a stored index inside
\* or outside the catalog, then advanced (A alone), retreated (B alone) and
\* jumped (# digits #) on the TEMP page, with the same keys typed on the DEV
\* page.  Nothing is started: OperatingMode stays Idle
\* ------------------------------------------------------------------------
ProfileMaxKeys == 4
ProfileTickMs == 900
ProfileMaxTime == 4700
KeysProfile == Offer({"A", "B", "D", "#", "1"}, ProfileMaxKeys)

\* stored indexes: the first entry, the first value outside the catalog and
\* the largest value the field holds
StoredIndexes == {0, NPROFILES, 255}

InitProfile ==
  \E prof \in StoredIndexes :
    Boot(Record(0, 1, prof, 0), 512, DEVICE_DISCONNECTED_10)

StepsProfile == Ticks(ProfileTickMs, ProfileMaxTime)

NextProfile ==
  \/ \E dt \in StepsProfile : LoopMainMenu(dt)
  \/ \E dt \in StepsProfile : LoopWait(KeysProfile, dt)
  \/ \E dt \in StepsProfile : LoopSetTimingM(Typed(KeysProfile), dt)
  \/ \E dt \in StepsProfile : LoopSetTimingS(Typed(KeysProfile), dt)
  \/ \E dt \in StepsProfile : LoopCal(KeysProfile, dt)

SpecProfile == InitProfile /\ [][NextProfile]_vars

\* the iteration just taken found a run in progress whose programmed
\* duration had elapsed when the motor controller ran
RunElapsed ==
  motorRunStartTime # 0 /\ now' - motorRunStartTime >= theTiming * 1000

\* C1: whenever the motor controller observes elapsed run time >= programmed
\* duration it signals "run completed", zeroes both duty outputs, clears the
\* run-start timestamp, silences the buzzer and sets OperatingMode to Idle;
\* OperatingMode is then not Developing until the next start
C1_TotalDurationStop ==
  /\ [][/\ RunElapsed => runCompleted' = 1
        /\ runCompleted' > 0 =>
             /\ RPWM' = 0 /\ LPWM' = 0 /\ motorRunStartTime' = 0
             /\ ~beepActive' /\ runMode' = "MODE_IDLE"]_vars
  /\ [](motorRunStartTime = 0 => runMode # "MODE_DEV")

Active == motorRunStartTime # 0 \/ runMode = "MODE_PREHEAT"

\* C3: while a development run or a preheat is active, key C read in any
\* dispatcher state requests the stop (ST_IDLE), and the iteration that
\* processes the request leaves both duty outputs at zero, OperatingMode
\* Idle, the run-start and preheat-start timestamps cleared and the buzzer
\* inactive
C3_StopAtAnyTime ==
  [][/\ rawKey' = "C" /\ (motorRunStartTime' # 0 \/ runMode' = "MODE_PREHEAT")
          => currentState' = "ST_IDLE"
     /\ currentState = "ST_IDLE" /\ Active =>
          /\ RPWM' = 0 /\ LPWM' = 0 /\ runMode' = "MODE_IDLE"
          /\ motorRunStartTime' = 0 /\ preheatStartTimeMs' = 0
          /\ ~beepActive']_vars

\* the controller state after runMotor(MOTOR_FORCESTOP) is called now
ForceStopped == runMotor(St, "MOTOR_FORCESTOP")

\* C4: from every controller state, running or stopped, beeping or not,
\* runMotor(MOTOR_FORCESTOP) leaves both duty outputs at zero, the run-start
\* timestamp cleared and the buzzer off, and a second call changes nothing.
\* (While preheating the motor belongs to the preheat functions: loop() calls
\* runMotor() only when runMode is not MODE_PREHEAT.)
C4_ForceStopUnconditional ==
  runMode # "MODE_PREHEAT" =>
    /\ ForceStopped.RPWM = 0 /\ ForceStopped.LPWM = 0
    /\ ForceStopped.motorRunStartTime = 0
    /\ ~ForceStopped.beepActive
    /\ runMotor(ForceStopped, "MOTOR_FORCESTOP") = ForceStopped

\* the controller state after runMotor(MOTOR_START) is called now
Started == runMotor(St, "MOTOR_START")

\* the controller state after runMotor(MOTOR_CONTINUE) is called now
Continued == runMotor(St, "MOTOR_CONTINUE")

\* C5 as claimed: runMotor(MOTOR_START) during a run leaves the run-start
\* timestamp, the cycle-start timestamp, the direction and the target duty
\* unchanged; while stopped it records run-start and cycle-start as the
\* current tick, computes the target duty from the current RPM and begins
\* in the forward direction
C5_StartIgnoredOrStarts ==
  IF motorRunStartTime # 0
  THEN /\ Started.motorRunStartTime = motorRunStartTime
       /\ Started.motorCycleStartTime = motorCycleStartTime
       /\ Started.currentStateMotor = currentStateMotor
       /\ Started.wMotor = wMotor
  ELSE /\ Started.motorRunStartTime = now
       /\ Started.motorCycleStartTime = now
       /\ Started.wMotor = motorDuty(wTank)
       /\ Started.currentStateMotor = "MOTOR_CW"

\* C5 amended: runMotor(MOTOR_START) during a run never restarts it and acts
\* exactly as MOTOR_CONTINUE: the target duty is unchanged, the run-start
\* timestamp is unchanged unless the programmed duration has elapsed (the
\* run then completes), the cycle-start timestamp and the direction are
\* unchanged unless the cycle time has elapsed (the direction then reverses).
\* While stopped it computes the target duty from the current RPM, records
\* run-start and cycle-start as the current tick and begins forward; with a
\* programmed duration of 0 the same call completes the run
C5_StartActsAsContinue ==
  IF motorRunStartTime # 0
  THEN /\ Started = [Continued EXCEPT !.command = "MOTOR_START"]
       /\ Started.wMotor = wMotor
       /\ now - motorRunStartTime < theTiming * 1000 =>
            Started.motorRunStartTime = motorRunStartTime
       /\ now - motorRunStartTime >= theTiming * 1000 =>
            Started.motorRunStartTime = 0 /\ Started.runCompleted > runCompleted
       /\ now - motorCycleStartTime < theCycleTiming =>
            /\ Started.motorCycleStartTime = motorCycleStartTime
            /\ now - motorRunStartTime < theTiming * 1000 =>
                 Started.currentStateMotor = currentStateMotor
  ELSE /\ Started.wMotor = motorDuty(wTank)
       /\ theTiming > 0 =>
            /\ Started.motorRunStartTime = now
            /\ Started.motorCycleStartTime = now
            /\ Started.currentStateMotor = "MOTOR_CW"
            /\ Started.RPWM = 0 /\ Started.LPWM = 0
       /\ theTiming = 0 =>
            /\ Started.motorRunStartTime = 0
            /\ Started.currentStateMotor = "MOTOR_FORCESTOP"
            /\ Started.runCompleted > runCompleted

\* the latest call was a START made during a run that had already reversed
C5_Witness ==
  /\ command = "MOTOR_START" /\ motorRunStartTime # 0
  /\ motorCycleStartTime > motorRunStartTime
  /\ currentStateMotor = "MOTOR_CCW"

\* a run is in progress whose programmed duration ends before the last tick
RunDue ==
  /\ motorRunStartTime # 0
  /\ motorRunStartTime + theTiming * 1000 <= LiveMaxTime - LiveTickMs

Working == <<offHtr_10, offBath_10, offTank_10, offBottle_10>>

Committed ==
  <<settings.offHtr_10, settings.offBath_10, settings.offTank_10,
    settings.offBottle_10>>

\* the iteration just taken was case ST_CAL and read key k (the menu timer
\* of a finished run did not take the dispatcher out of calibration first)
CalKey(k) ==
  /\ currentState = "ST_CAL" /\ rawKey' = k
  /\ showMenuAfterStop' = showMenuAfterStop

\* C7: outside calibration mode the four working offsets equal the four
\* committed offsets, and no iteration that starts outside calibration mode
\* changes the committed offsets
C7_OffsetsStagedInCal ==
  /\ [](currentState # "ST_CAL" => Working = Committed)
  /\ [][currentState # "ST_CAL" => Committed' = Committed]_vars

\* C8: in calibration mode A adds and B subtracts one tenth on the selected
\* page within -999..999; with committed offset v on the selected page,
\* k net increases since the page was selected followed by save (C) commit
\* v + k, followed by discard (D) leave v committed and restore the working
\* offsets to the committed ones
C8_CalibrationEdit ==
  [][/\ CalKey("A") =>
          Working'[calIndex(calPage)] =
            IF Working[calIndex(calPage)] < CAL_MAX_10
            THEN Working[calIndex(calPage)] + 1
            ELSE Working[calIndex(calPage)]
     /\ CalKey("B") =>
          Working'[calIndex(calPage)] =
            IF Working[calIndex(calPage)] > -CAL_MAX_10
            THEN Working[calIndex(calPage)] - 1
            ELSE Working[calIndex(calPage)]
     /\ CalKey("C") =>
          Committed'[calIndex(calPage)] =
            Committed[calIndex(calPage)] + calIncr
     /\ CalKey("D") => Committed' = Committed /\ Working' = Committed]_vars

\* C9: calibration mode is entered only by an iteration that starts in
\* ST_WAIT on the TEMP page with OperatingMode Idle, and whenever the
\* dispatcher is in calibration mode OperatingMode is Idle
C9_CalOnlyFromIdleTemp ==
  /\ [](currentState = "ST_CAL" => runMode = "MODE_IDLE")
  /\ [][currentState # "ST_CAL" /\ currentState' = "ST_CAL" =>
          /\ currentState = "ST_WAIT" /\ currentPage = "PAGE_TEMP"
          /\ runMode = "MODE_IDLE" /\ rawKey' = "B"]_vars

\* calibration has just been entered by key B, after a run has completed
C9_Witness ==
  /\ currentState = "ST_CAL" /\ rawKey = "B" /\ runMode = "MODE_IDLE"
  /\ currentPage = "PAGE_TEMP" /\ stopTimeMs # 0

\* key A is pending
Armed == awaitCalCombo /\ pendingAProfile

\* the iteration just taken started in ST_WAIT on the TEMP page in Idle
WaitTempIdle ==
  currentState = "ST_WAIT" /\ currentPage = "PAGE_TEMP"
  /\ runMode = "MODE_IDLE"

\* the iteration just taken moved the active profile by d and committed it
ProfileMoved(d) ==
  /\ currentProfile' = (currentProfile + d) % NPROFILES
  /\ settings'.profileIndex = currentProfile'
  /\ eeprom'.profileIndex = currentProfile'

\* the three outcomes, each under its condition, and their exclusion
ComboOutcomes ==
  /\ WaitTempIdle /\ rawKey' = "A" => Armed' /\ calComboStart' = now'
  /\ WaitTempIdle /\ Armed /\ now' - calComboStart <= CAL_COMBO_MS
       /\ rawKey' = "B" =>
          currentState' = "ST_CAL" /\ currentProfile' = currentProfile
          /\ ~Armed'
  /\ WaitTempIdle /\ Armed /\ now' - calComboStart > CAL_COMBO_MS =>
          ProfileMoved(1) /\ ~Armed' /\ currentState' # "ST_CAL"
          /\ rawKey' = NO_KEY
  /\ WaitTempIdle /\ ~Armed /\ rawKey' = "B" =>
          ProfileMoved(NPROFILES - 1) /\ currentState' # "ST_CAL"
  /\ currentState # "ST_CAL" /\ currentState' = "ST_CAL" =>
          Armed /\ currentProfile' = currentProfile

RECURSIVE Entered(_)
Entered(buf) ==
  IF buf = <<>> THEN 0
  ELSE 10 * Entered(SubSeq(buf, 1, Len(buf) - 1)) + DigitVal(buf[Len(buf)])

\* the iteration just taken started in ST_WAIT on the TEMP page with the
\* profile jump armed and no backlight combo pending, and read key k
JumpKey(k) ==
  /\ currentState = "ST_WAIT" /\ currentPage = "PAGE_TEMP"
  /\ profSelectMode /\ ~awaitOffCombo /\ rawKey' = k

\* C11: the '#' that terminates a profile jump makes the active profile the
\* catalog index whose identifier equals the entered number and commits it;
\* when no entry has that identifier (the empty entry included) the active
\* profile and the persisted profile index are unchanged
C11_ProfileJumpById ==
  [][JumpKey("#") =>
       IF profBuf # <<>>
          /\ \E i \in 0..(NPROFILES - 1) : profileId(i) = Entered(profBuf)
       THEN /\ profileId(currentProfile') = Entered(profBuf)
            /\ settings'.profileIndex = currentProfile'
            /\ eeprom'.profileIndex = currentProfile'
       ELSE /\ currentProfile' = currentProfile
            /\ settings'.profileIndex = settings.profileIndex
            /\ eeprom'.profileIndex = eeprom.profileIndex]_vars

\* the jump # 1 5 # has just selected index 14, which holds identifier 15
C11_Witness ==
  /\ rawKey = "#" /\ currentState = "ST_DISPLAY_MAINMENU"
  /\ currentPage = "PAGE_TEMP" /\ ~profSelectMode
  /\ currentProfile = 14 /\ settings.profileIndex = 14

\* C12: while the profile jump is armed, each of the keys A, B, C, D and *
\* read in ST_WAIT, in every operating mode, leaves the jump disarmed and
\* the digit buffer empty
C12_JumpCancelledByOtherKey ==
  [][/\ currentState = "ST_WAIT" /\ currentPage = "PAGE_TEMP"
     /\ profSelectMode /\ rawKey' \in {"A", "B", "C", "D", "*"}
     => ~profSelectMode' /\ profBuf' = <<>>]_vars

\* the iteration just taken was case st (an edit state) and read key k
EntryKey(st, k) ==
  currentState = st /\ ~showMenuAfterStop /\ rawKey' = k

\* the end of a numeric entry: total duration recomputed, settings
\* committed, dispatcher back in MainMenu
EntryClosed ==
  /\ theTiming' = tMinutes' * 60 + tSeconds'
  /\ settings'.tMinutes = tMinutes' /\ settings'.tSeconds = tSeconds'
  /\ eeprom' = settings'
  /\ currentState' = "ST_DISPLAY_MAINMENU"

\* C15: in the numeric entry of minutes (seconds), '#' after a non-empty
\* digit sequence sets the minutes (seconds) to the decimal number formed by
\* the digits typed; '#' with nothing typed and '*' leave both values
\* unchanged; in all three cases the total duration is recomputed, the
\* settings are committed and the dispatcher returns to MainMenu
C15_NumericEntry ==
  [][/\ EntryKey("ST_SETTIMING_M", "#") /\ keypadbuffer # <<>> =>
          /\ tMinutes' = Entered(keypadbuffer) /\ tSeconds' = tSeconds
          /\ EntryClosed
     /\ EntryKey("ST_SETTIMING_S", "#") /\ keypadbuffer # <<>> =>
          /\ tSeconds' = Entered(keypadbuffer) /\ tMinutes' = tMinutes
          /\ EntryClosed
     /\ \/ EntryKey("ST_SETTIMING_M", "#") /\ keypadbuffer = <<>>
        \/ EntryKey("ST_SETTIMING_S", "#") /\ keypadbuffer = <<>>
        \/ EntryKey("ST_SETTIMING_M", "*")
        \/ EntryKey("ST_SETTIMING_S", "*")
        => /\ tMinutes' = tMinutes /\ tSeconds' = tSeconds
           /\ EntryClosed]_vars

\* the iteration just taken started in ST_WAIT on the DEV page and read k
DevKey(k) ==
  currentState = "ST_WAIT" /\ currentPage = "PAGE_DEV" /\ rawKey' = k

\* slot n holds the current minutes and seconds and is marked defined
Stored(n) ==
  /\ settings'.devSteps[n] =
       [minutes |-> tMinutes, seconds |-> tSeconds, defined |-> 1]
  /\ \A i \in 0..9 : i # n => settings'.devSteps[i] = settings.devSteps[i]
  /\ eeprom' = settings'

\* C13: on the DEV page '#' arms the store; with the store armed a digit
\* 1-9 stores the current minutes and seconds in that slot, marks it
\* defined, commits the settings and clears the arm; any other key (0, A,
\* B, C, D, *) clears the arm and modifies no slot
C13_StoreStepArm ==
  [][/\ DevKey("#") /\ ~awaitOffCombo => stepStoreMode'
     /\ \A n \in 1..9 :
          DevKey(ToString(n)) /\ stepStoreMode =>
            Stored(n) /\ ~stepStoreMode'
     /\ \A k \in {"0", "A", "B", "C", "D", "*"} :
          DevKey(k) /\ stepStoreMode =>
            ~stepStoreMode' /\ settings'.devSteps = settings.devSteps]_vars

\* C14: a store to slot n writes exactly the current minutes and seconds;
\* a slot changes only by a store to it; the recall of a defined slot n
\* sets minutes and seconds to the slot's values and the total duration to
\* minutes * 60 + seconds; the recall of an undefined slot changes nothing
C14_StoreRecallRoundTrip ==
  [][\A n \in 1..9 :
       /\ DevKey(ToString(n)) /\ stepStoreMode => Stored(n)
       /\ ~(DevKey(ToString(n)) /\ stepStoreMode) =>
            settings'.devSteps[n] = settings.devSteps[n]
       /\ DevKey(ToString(n)) /\ ~stepStoreMode =>
            IF settings.devSteps[n].defined # 0
            THEN /\ tMinutes' = settings.devSteps[n].minutes
                 /\ tSeconds' = settings.devSteps[n].seconds
                 /\ theTiming' = tMinutes' * 60 + tSeconds'
            ELSE /\ tMinutes' = tMinutes /\ tSeconds' = tSeconds
                 /\ theTiming' = theTiming
                 /\ settings' = settings]_vars

\* the two edit states of the dispatcher
EditStates == {"ST_SETTIMING_M", "ST_SETTIMING_S"}

\* C16: the dispatcher leaves an edit state only in an iteration that reads
\* '#' or '*' in that state, and then goes to MainMenu; a key read by an
\* iteration that starts in an edit state is handled by the entry; the entry
\* buffer is empty whenever an edit state is entered
C16_EntryNotInterrupted ==
  [][/\ currentState \in EditStates /\ currentState' # currentState =>
          rawKey' \in {"#", "*"} /\ currentState' = "ST_DISPLAY_MAINMENU"
     /\ currentState \in EditStates /\ rawKey' \in Digits =>
          keypadbuffer' = Append(keypadbuffer, rawKey')
          \/ (Len(keypadbuffer) = 20 /\ keypadbuffer' = keypadbuffer)
     /\ currentState \notin EditStates /\ currentState' \in EditStates =>
          keypadbuffer' = <<>>]_vars

\* the iteration just taken was case ST_WAIT and read key k
WaitKey(k) == currentState = "ST_WAIT" /\ rawKey' = k

\* the window armed by '*' is open at the iteration just taken
WindowOpen == awaitOffCombo /\ now' - comboStartTime <= OFF_COMBO_MS

\* C17: with the backlight on '*' arms a window; the backlight is turned off
\* only by '#' read in ST_WAIT while the window is open (armed, no key read
\* since, no more than 1000 ms after the '*'); every key other than '*'
\* closes the window; a '#' read with the window closed or expired leaves
\* the backlight as it is and is the ordinary '#' of the page (store arm on
\* DEV, jump start or jump end on TEMP); with the backlight off '*' turns it
\* on and arms nothing
C17_BacklightCombo ==
  [][/\ WaitKey("*") /\ backlightOn =>
          backlightOn' /\ awaitOffCombo' /\ comboStartTime' = now'
     /\ WaitKey("*") /\ ~backlightOn => backlightOn' /\ ~awaitOffCombo'
     /\ backlightOn /\ ~backlightOn' => WaitKey("#") /\ WindowOpen
     /\ WaitKey("#") /\ WindowOpen =>
          /\ ~backlightOn' /\ ~awaitOffCombo'
          /\ stepStoreMode' = stepStoreMode
          /\ profSelectMode' = profSelectMode
     /\ WaitKey("#") /\ ~WindowOpen =>
          /\ backlightOn' = backlightOn
          /\ currentPage = "PAGE_DEV" => stepStoreMode'
          /\ currentPage = "PAGE_TEMP" => profSelectMode' = ~profSelectMode
     /\ currentState = "ST_WAIT" /\ rawKey' \notin {NO_KEY, "*"} =>
          ~awaitOffCombo']_vars

\* the backlight has just been turned off by '#' exactly 1000 ms after '*',
\* the only two keys read so far
C17_Witness ==
  /\ ~backlightOn /\ rawKey = "#" /\ ~awaitOffCombo /\ nKeys = 2
  /\ now - comboStartTime = OFF_COMBO_MS /\ ~stepStoreMode

\* C18: at every loop boundary with the dispatcher in MainMenu or Wait the
\* persisted minutes, seconds and active profile index equal the live ones,
\* and the stored block equals the settings aggregate (stored steps
\* included)
C18_CommittedBeforeMenu ==
  currentState \in {"ST_DISPLAY_MAINMENU", "ST_WAIT"} =>
    /\ settings.tMinutes = tMinutes /\ settings.tSeconds = tSeconds
    /\ settings.profileIndex = currentProfile
    /\ eeprom = settings

\* the state after saveSettings() is called now, and after loadSettings()
\* is called next
Saved == saveSettings(St)
Reloaded == loadSettings(Saved)

\* C19: save then load leaves the persisted aggregate equal in every field
\* to the one saved, which holds the live minutes, seconds, profile index
\* and offsets and the nine steps as they were, and the live values equal
\* to their values before the save
C19_SettingsRoundTrip ==
  /\ Saved.settings.version = SETTINGS_VERSION
  /\ Saved.settings.tMinutes = tMinutes /\ Saved.settings.tSeconds = tSeconds
  /\ Saved.settings.profileIndex = currentProfile
  /\ <<Saved.settings.offHtr_10, Saved.settings.offBath_10,
       Saved.settings.offTank_10, Saved.settings.offBottle_10>> = Working
  /\ Saved.settings.devSteps = settings.devSteps
  /\ Saved.eeprom = Saved.settings
  /\ Reloaded.settings = Saved.settings /\ Reloaded.eeprom = Saved.eeprom
  /\ Reloaded.tMinutes = tMinutes /\ Reloaded.tSeconds = tSeconds
  /\ Reloaded.currentProfile = currentProfile
  /\ <<Reloaded.offHtr_10, Reloaded.offBath_10,
       Reloaded.offTank_10, Reloaded.offBottle_10>> = Working

\* live values at the ends of their ranges, differing from the persisted
\* ones, with defined steps in the aggregate: the input of a save
C19_Witness ==
  /\ tMinutes = 65535 /\ tSeconds = 59 /\ currentProfile = 16
  /\ offHtr_10 = -999 /\ offBottle_10 = 999
  /\ settings.devSteps[9].defined = 1
  /\ settings.tMinutes = 300 /\ settings.profileIndex = 0
  /\ settings.offHtr_10 = 999 /\ eeprom = settings

\* the state after loadSettings() finds record g in storage
LoadedFrom(g) == loadSettings([St EXCEPT !.eeprom = g])

\* C20: loading a record whose version tag differs from the current one
\* yields the default aggregate (current version, 5 min 0 s, nine steps
\* undefined, profile index 1, four offsets 0), rewritten to storage, and
\* the live values of the defaults, whatever the record and the state hold
C20_MismatchLoadsDefaults ==
  \A g \in Mismatched :
    /\ LoadedFrom(g).settings.version = 4
    /\ LoadedFrom(g).settings.tMinutes = 5
    /\ LoadedFrom(g).settings.tSeconds = 0
    /\ \A i \in 1..9 :
         LoadedFrom(g).settings.devSteps[i] =
           [minutes |-> 0, seconds |-> 0, defined |-> 0]
    /\ LoadedFrom(g).settings.profileIndex = 1
    /\ LoadedFrom(g).settings.offHtr_10 = 0
    /\ LoadedFrom(g).settings.offBath_10 = 0
    /\ LoadedFrom(g).settings.offTank_10 = 0
    /\ LoadedFrom(g).settings.offBottle_10 = 0
    /\ LoadedFrom(g).eeprom = LoadedFrom(g).settings
    /\ LoadedFrom(g).tMinutes = 5 /\ LoadedFrom(g).tSeconds = 0
    /\ LoadedFrom(g).currentProfile = 1
    /\ LoadedFrom(g).offHtr_10 = 0 /\ LoadedFrom(g).offBath_10 = 0
    /\ LoadedFrom(g).offTank_10 = 0 /\ LoadedFrom(g).offBottle_10 = 0

\* setup() has found a record of another version and runs on the defaults
C20_Witness ==
  /\ factoryResets = 1 /\ AfterSetup
  /\ settings = eeprom /\ settings.version = SETTINGS_VERSION
  /\ tMinutes = 5 /\ tSeconds = 0 /\ currentProfile = 1
  /\ settings.devSteps[9].defined = 0 /\ Working = <<0, 0, 0, 0>>

\* the buzzer is switched on by this step
BeepStarted == beepActive' /\ (~beepActive \/ beepEndTime' # beepEndTime)

\* the development run of this state goes on through this step
SameRun ==
  /\ runMode = "MODE_DEV" /\ runMode' = "MODE_DEV"
  /\ motorRunStartTime # 0 /\ motorRunStartTime' = motorRunStartTime

\* C22: during one development run the pre-end warning is started at most
\* once (no beep starts in a run whose warning has been given), and in a run
\* of 5 s or less it is never started
C22_WarningOneShot ==
  [][/\ (SameRun /\ devPreEndBeepDone => ~BeepStarted)
     /\ (runMode' = "MODE_DEV" /\ theTiming' <= 5 => ~BeepStarted)]_vars

\* C21: a beep that is active before and after a step keeps its deadline
\* (a request made meanwhile neither extends nor restarts it), and a beep
\* that is active after a loop iteration has its deadline ahead of the
\* clock by at most the beep length: the iteration that finds the clock at
\* or past the deadline has switched it off (differences modulo 2^32)
C21_BeepNeverOverlaps ==
  [][/\ (beepActive /\ beepActive' => beepEndTime' = beepEndTime)
     /\ (beepActive' => beepEndTime' - now' \in 1..BEEP_MS)]_vars

\* C23: no loop iteration waits on the clock: an iteration that reads
\* millis() to record the start of preheat ends with millis() at that value
C23_LoopNeverBlocks ==
  [][preheatStartTimeMs' # preheatStartTimeMs /\ preheatStartTimeMs' # 0
       => now' = preheatStartTimeMs']_vars

OperatingModes == {"MODE_IDLE", "MODE_DEV", "MODE_PREHEAT"}

\* the state in which the iteration that starts dt ms from now reaches the
\* call of the motor drive controller
AtMotorCall(dt) ==
  preheatPwm(setTankSpeed(thermalService(
    [St EXCEPT !.now = now + dt, !.runCompleted = 0])))

\* C24: runMode is one of the three operating modes, and neither a thermal
\* update nor a call runMotor(MOTOR_CONTINUE) of the loop, now or one tick
\* from now, changes it
C24_ModeChangedOnlyByDispatcher ==
  /\ runMode \in OperatingModes
  /\ \A dt \in {0, RunTickMs} :
       /\ thermalService([St EXCEPT !.now = now + dt]).runMode = runMode
       /\ runMode # "MODE_PREHEAT"
            => runMotor(AtMotorCall(dt), "MOTOR_CONTINUE").runMode = runMode

\* the stored steps, in memory or in storage, differ after this step
SlotsChanged ==
  settings'.devSteps # settings.devSteps \/ eeprom'.devSteps # eeprom.devSteps

\* the iteration read digit n on the DEV page with the store armed, and
\* slot n alone was written, marked defined and committed
StoreTo(n) ==
  /\ currentPage = "PAGE_DEV" /\ stepStoreMode /\ rawKey' = ToString(n)
  /\ \A i \in 0..9 : i # n => settings'.devSteps[i] = settings.devSteps[i]
  /\ settings'.devSteps[n].defined = 1
  /\ eeprom'.devSteps = settings'.devSteps

\* a load found a record of another version and reset every slot
ResetByLoad ==
  /\ factoryResets' = factoryResets + 1
  /\ \A i \in 0..9 : settings'.devSteps[i] = UndefinedStep
  /\ eeprom'.devSteps = settings'.devSteps

\* C25: the nine step slots change only by the store to one slot ('#' then
\* its digit on the DEV page) or by the reset of a version-mismatch load;
\* every other step (recall, numeric entry, profile change, calibration,
\* run start and stop, time passing) leaves them as they are, so a defined
\* slot never becomes undefined by itself
C25_SlotsChangeOnlyByStore ==
  [][SlotsChanged => (\E n \in 1..9 : StoreTo(n)) \/ ResetByLoad]_vars

\* slot 1 has been stored and a run has been started since: slot 1 is
\* still defined and committed, slot 2 has never been stored
C25_Witness ==
  /\ settings.devSteps[1].defined = 1 /\ settings.devSteps[2].defined = 0
  /\ runMode = "MODE_DEV" /\ nKeys >= 3 /\ eeprom = settings

\* the motor turns in one of its two directions
Turning(dir) == dir \in {"MOTOR_CW", "MOTOR_CCW"}

\* this step is a call of runMotor(): the clock and the pot stand
MotorCalled == now' = now /\ potValue' = potValue

\* the direction flips between forward and reverse in this step
Flip ==
  /\ Turning(currentStateMotor) /\ Turning(currentStateMotor')
  /\ currentStateMotor' # currentStateMotor

\* the duty of the phase that elapsed-in-cycle e falls into
PhaseDuty(e, target, brake, cycle) ==
  IF e <= accelCycleTime THEN (e * target) \div accelCycleTime
  ELSE IF e <= brake THEN target
  ELSE target - ((e - brake) * target) \div (cycle - brake)

\* C26: the direction flips only in a call that finds elapsed-in-cycle at
\* or past the cycle length, and every such call of a turning motor flips
\* it (or ends the run); the flip sets both outputs to zero and restarts
\* the cycle clock at the current tick; any other call of a turning motor
\* leaves the direction and drives the output of that direction with the
\* duty of the phase: ramp-up on [0, accel], constant on (accel, brake],
\* ramp-down on (brake, cycle length), the other output being zero
C26_FlipOnlyAtCycleBoundary ==
  [][/\ Flip =>
          /\ MotorCalled
          /\ now - motorCycleStartTime >= theCycleTiming
          /\ RPWM' = 0 /\ LPWM' = 0 /\ motorCycleStartTime' = now'
     /\ MotorCalled /\ Turning(currentStateMotor)
          /\ now - motorCycleStartTime >= theCycleTiming
          => Flip \/ currentStateMotor' = "MOTOR_FORCESTOP"
     /\ MotorCalled /\ Turning(currentStateMotor') /\ ~Flip
          /\ (command' # command \/ RPWM' # RPWM \/ LPWM' # LPWM
              \/ motorRunStartTime' # motorRunStartTime)
          => /\ now' - motorCycleStartTime' < theCycleTiming'
             /\ motorCycleStartTime' =
                  IF Turning(currentStateMotor) THEN motorCycleStartTime
                  ELSE now'
             /\ <<RPWM', LPWM'>> =
                  LET duty == PhaseDuty(now' - motorCycleStartTime', wMotor',
                                        breakCycleTime', theCycleTiming')
                  IN IF currentStateMotor' = "MOTOR_CW"
                     THEN <<duty, 0>> ELSE <<0, duty>>]_vars

\* a call in the ramp-down of the reverse direction, after a flip
C26_Witness ==
  /\ currentStateMotor = "MOTOR_CCW"
  /\ now - motorCycleStartTime > breakCycleTime
  /\ now - motorCycleStartTime < theCycleTiming
  /\ LPWM > 0 /\ LPWM < wMotor /\ RPWM = 0

\* C27: after every loop iteration each duty output is within 0..255, at
\* most one of the two is non-zero, during a development run neither
\* exceeds the target duty, and both are zero while the mode is Idle
C27_DutyOutputsInRange ==
  /\ RPWM \in 0..255 /\ LPWM \in 0..255
  /\ RPWM = 0 \/ LPWM = 0
  /\ runMode = "MODE_DEV" => RPWM <= wMotor /\ LPWM <= wMotor
  /\ runMode = "MODE_IDLE" => RPWM = 0 /\ LPWM = 0

\* a development run in the ramp-up of the reverse direction
C27_Witness ==
  /\ runMode = "MODE_DEV" /\ currentStateMotor = "MOTOR_CCW"
  /\ LPWM > 0 /\ LPWM < wMotor /\ RPWM = 0

\* C28: at every time after setup, for every pot value, the accepted tank
\* speed is within 56..86 RPM (so the divisor of the cycle length is not
\* zero), the cycle length is positive, the brake threshold is below it and
\* the acceleration window is not above the brake threshold
C28_SpeedAndCycleInBand ==
  /\ potValue \in 0..1023
  /\ wTankLow = 56 /\ wTankHigh = 86
  /\ wTank \in wTankLow..wTankHigh
  /\ theCycleTiming > 0
  /\ breakCycleTime < theCycleTiming
  /\ accelCycleTime <= breakCycleTime
  /\ theCycleTiming = (nFullRev * 60000) \div wTank + accelCycleTime

\* a sample has accepted the lowest speed, which gives the longest cycle
C28_Witness ==
  /\ now > BootMs /\ potValue = 0 /\ wTank = 56 /\ lastWTank = 56
  /\ theCycleTiming = 3514 /\ breakCycleTime = 3214

\* setTankSpeed() has sampled the pot in this step
Sampled == nextSpeedUpdate' # nextSpeedUpdate /\ nextSpeedUpdate' = now'

\* the candidate of that sample: the nominal speed plus the pot's delta
Candidate == wTankLow + (potValue' * (2 * deltaMax)) \div 1023

\* the candidate is at least the threshold away from the last accepted speed
Accepted == abs(Candidate - lastWTank) >= 2

\* C29: a sample whose candidate is less than 2 RPM from the last accepted
\* speed leaves the accepted speed, the cycle length, the brake threshold
\* and the target duty as they were; an accepted candidate becomes the
\* speed and changes the target duty only while the motor runs; and the
\* target duty changes in no other step but the start of a run
C29_AntiJitter ==
  [][/\ Sampled /\ ~Accepted =>
          /\ wTank' = wTank /\ lastWTank' = lastWTank
          /\ theCycleTiming' = theCycleTiming
          /\ breakCycleTime' = breakCycleTime /\ wMotor' = wMotor
     /\ Sampled /\ Accepted =>
          /\ wTank' = Candidate /\ lastWTank' = Candidate
          /\ motorRunStartTime = 0 => wMotor' = wMotor
     /\ wMotor' # wMotor =>
          \/ Sampled /\ Accepted /\ motorRunStartTime # 0
          \/ motorRunStartTime = 0 /\ motorRunStartTime' # 0]_vars

\* the motor runs at the duty of 71 RPM with the pot one RPM above: the
\* candidate 72 has been sampled and not accepted
C29_Witness ==
  /\ motorRunStartTime # 0 /\ potValue = 546 /\ nextSpeedUpdate = now
  /\ wTank = 71 /\ lastWTank = 71 /\ wMotor = motorDuty(71) /\ RPWM > 0

\* preheat is on when this iteration evaluates readiness, with the in-band
\* timestamp set
HoldRunning ==
  /\ now' # now \/ rawKey' # rawKey \/ currentState' # currentState
  /\ runMode = "MODE_PREHEAT" /\ preheatStartTimeMs # 0 /\ inBandStartMs # 0
  /\ runMode' = "MODE_PREHEAT"

\* |measured - target| of that evaluation, in tenths of a degree
Diff10 == abs(tempBathC' - setC_tenths(currentProfile))

\* the difference is beyond the band that applies: enter band before
\* latching, exit band after
OutOfBand == Diff10 > (IF readyLatched THEN BAND_OUT_10 ELSE BAND_IN_10)

\* the bath reading of that evaluation is a temperature
BathValid == tempBathC' >= -500 /\ tempBathC' <= 1000

\* C30 as stated: while preheating with a valid bath reading, a set in-band
\* timestamp is cleared or restarted by an evaluation if and only if the
\* difference exceeds the enter band (not latched) or the exit band
\* (latched); no other event clears it
C30_ClearedIffOutOfBand ==
  [][HoldRunning /\ BathValid =>
       /\ OutOfBand => inBandStartMs' = 0
       /\ ~OutOfBand => inBandStartMs' = inBandStartMs]_vars

\* C30 amended: the timestamp is kept while the bath reading is invalid;
\* after a change of the active profile the hold starts again (timestamp at
\* the current tick if the reading is inside the enter band, cleared if
\* not, latch dropped); otherwise it is cleared if and only if the
\* difference exceeds the band that applies
C30_ClearedByBandOrProfile ==
  [][HoldRunning =>
       IF lastProf # currentProfile
       THEN /\ ~readyLatched'
            /\ inBandStartMs' =
                 IF BathValid /\ Diff10 <= BAND_IN_10 THEN now' ELSE 0
       ELSE IF ~BathValid
       THEN inBandStartMs' = inBandStartMs /\ readyLatched' = readyLatched
       ELSE /\ OutOfBand => inBandStartMs' = 0 /\ ~readyLatched'
            /\ ~OutOfBand => inBandStartMs' = inBandStartMs]_vars

\* the latch is set and the reading is between the two bands: the
\* timestamp of the hold is still the one set 30 s or more ago
C30_Witness ==
  /\ runMode = "MODE_PREHEAT" /\ readyLatched /\ tempBathC = 384
  /\ inBandStartMs # 0 /\ now - inBandStartMs >= HOLD_MS

\* an evaluation of readiness while preheat is on and stays on
Evaluated ==
  /\ now' # now \/ rawKey' # rawKey \/ currentState' # currentState
  /\ runMode = "MODE_PREHEAT" /\ preheatStartTimeMs # 0
  /\ runMode' = "MODE_PREHEAT"

ProfileChanged == lastProf # currentProfile

\* the latch is set by an evaluation only with the reading inside the enter
\* band and a hold that started 30 s or more ago and was not restarted
LatchRisesAfterHold ==
  ~readyLatched /\ readyLatched' =>
      /\ BathValid /\ Diff10 <= BAND_IN_10
      /\ inBandStartMs # 0 /\ inBandStartMs' = inBandStartMs
      /\ now' - inBandStartMs >= HOLD_MS

\* a reading outside the enter band before latching ends the hold
HoldInterrupted ==
  ~readyLatched /\ BathValid /\ Diff10 > BAND_IN_10 =>
      inBandStartMs' = 0 /\ ~readyLatched'

\* C31 as stated: the latch is set only after a full uninterrupted hold
\* inside the enter band; once set it stays set at every evaluation where
\* the difference is at most the exit band, and is cleared only when the
\* difference exceeds the exit band
C31_LatchHysteresis ==
  [][Evaluated =>
       /\ LatchRisesAfterHold
       /\ HoldInterrupted
       /\ readyLatched /\ BathValid /\ Diff10 <= BAND_OUT_10 => readyLatched'
       /\ readyLatched /\ ~readyLatched' =>
            BathValid /\ Diff10 > BAND_OUT_10]_vars

\* C31 amended: as stated for as long as the active profile is the one the
\* hold was started for; an evaluation after a change of the active
\* profile clears the latch whatever the difference, and an evaluation
\* with an invalid bath reading leaves the latch as it is
C31_LatchHysteresisPerProfile ==
  [][Evaluated =>
       /\ LatchRisesAfterHold
       /\ HoldInterrupted
       /\ ProfileChanged => ~readyLatched'
       /\ readyLatched /\ ~ProfileChanged /\ (~BathValid \/ Diff10 <= BAND_OUT_10)
            => readyLatched'
       /\ readyLatched /\ ~readyLatched' =>
            ProfileChanged \/ (BathValid /\ Diff10 > BAND_OUT_10)]_vars

\* the latch was set by an earlier evaluation and has been kept by one
\* that read a difference between the enter band and the exit band
C31_Witness ==
  /\ runMode = "MODE_PREHEAT" /\ readyLatched /\ preheatReady
  /\ abs(tempBathC - setC_tenths(currentProfile)) = BAND_IN_10 + 1
  /\ lastProf = currentProfile
  /\ now - inBandStartMs >= HOLD_MS + ReadyTickMs

\* a loop iteration, which evaluates readiness once
Iteration == now' # now \/ rawKey' # rawKey \/ currentState' # currentState

\* preheat is on when the iteration evaluates readiness
Preheating == runMode = "MODE_PREHEAT" /\ preheatStartTimeMs # 0

RestartOnChange ==
  ProfileChanged =>
      /\ ~readyLatched' /\ inBandStartMs' \in {0, now'}
      /\ lastProf' = currentProfile

\* a hold that ends in "ready" was not restarted by this evaluation and is
\* 30 s old or older, so it began at or after the latest restart
ReadyOnlyAfterHold ==
  BathValid /\ preheatReady' =>
      /\ ~ProfileChanged /\ readyLatched'
      /\ inBandStartMs' = inBandStartMs /\ inBandStartMs # 0
      /\ now' - inBandStartMs >= HOLD_MS

\* C33 as stated: after a change of the active profile while preheating,
\* the next evaluation clears the latch and restarts the timer, and does
\* not report ready
C33_ProfileChangeRestartsHold ==
  [][Evaluated => RestartOnChange /\ (ProfileChanged => ~preheatReady')]_vars

\* C33 amended: the latch and the timer are restarted as stated, and with a
\* valid bath reading ready is reported again only after a full hold that
\* began at or after the restart; with an invalid bath reading ready is
\* the time fallback, which a profile change does not restart
C33_ProfileChangeRestartsValidHold ==
  [][Evaluated =>
       /\ RestartOnChange
       /\ ReadyOnlyAfterHold
       /\ ProfileChanged /\ ~BathValid =>
            preheatReady' =
              (now' - preheatStartTimeMs >= PREHEAT_READY_MS)]_vars

\* a preheat that was ready before, whose hold was restarted by a profile
\* change at a reading on target after the latch had been set: not ready,
\* timestamp at the current tick
C33_Witness ==
  /\ runMode = "MODE_PREHEAT" /\ holdRestarted /\ preheatReadyBeepDone
  /\ lastProf = currentProfile /\ currentProfile # 1
  /\ ~readyLatched /\ ~preheatReady
  /\ inBandStartMs = now /\ tempBathC = setC_tenths(currentProfile)

\* C34: every development run start receives its seeding of the lag
\* state: the seeding that a run start has requested is pending only while
\* that run is on, so no run ends without it
C34_SeededOncePerRun ==
  devJustStarted => runMode = "MODE_DEV" /\ motorRunStartTime # 0

\* a thermal update has run in this iteration
ThermalUpdate == nextTempUpdateMs' # nextTempUpdateMs

\* the driver temperature of that update
Driver ==
  driverTemp([St EXCEPT !.tempBathC = tempBathC', !.tempTankC = tempTankC',
                        !.tempBottleC = tempBottleC'], tempMeanC')

\* the time constant of that update, in ms
Tau ==
  IF runMode = "MODE_PREHEAT" THEN computeTauS(0, rpmFromPwm(pwmPreheat))
  ELSE computeTauS(vol_ml(currentProfile), wTank)

\* C35: an update with a valid driver and a valid estimate that is not the
\* seeding of a run moves the estimate toward the driver without passing
\* it, so the distance never grows; the step is the distance times
\* dt / tau with tau in [10, 600] s, for every catalog volume at the
\* ends of the speed range (tau falls with the speed, grows with the volume)
C35_LagNeverOvershoots ==
  [][ThermalUpdate /\ isValidFine(Driver) /\ isValidFine(tempDevC)
       /\ devJustStarted' = devJustStarted =>
       /\ Tau \in (TAU_MIN_S * 1000)..(TAU_MAX_S * 1000)
       /\ abs(Driver - tempDevC') <= abs(Driver - tempDevC)
       /\ tempDevC <= Driver => tempDevC <= tempDevC' /\ tempDevC' <= Driver
       /\ tempDevC >= Driver => tempDevC >= tempDevC' /\ tempDevC' >= Driver
       /\ abs(tempDevC' - tempDevC) * Tau
            <= abs(Driver - tempDevC) * TEMP_UPDATE_INTERVAL_MS
       /\ \A i \in 0..(NPROFILES - 1) :
          \A rpm \in {0, 1, 5, wTankLow, wTankHigh, 255} :
             computeTauS(vol_ml(i), rpm) \in
               (TAU_MIN_S * 1000)..(TAU_MAX_S * 1000)]_vars

\* the estimate has left 20.0 C for a driver at 38.0 C and is on its way
C35_Witness ==
  /\ tempMeanC = 380 * FINE
  /\ tempDevC > 200 * FINE + 1000 /\ tempDevC < 380 * FINE

\* the gradient rule of that update: target + (bath - bottle) + heater
\* calibration offset with both readings valid, the target without
HtrBase ==
  IF isValidTempC(tempBathC') /\ isValidTempC(tempBottleC')
  THEN setC_tenths(currentProfile) + (tempBathC' - tempBottleC') + offHtr_10
  ELSE setC_tenths(currentProfile)

\* a development run is on when the update is made
DevRunning == runMode = "MODE_DEV" /\ motorRunStartTime # 0

\* C36: after every thermal update the heater-dial suggestion is the
\* gradient rule, plus the pour-cooling offset of the profile exactly when
\* a development run is on, brought into [20.0, 60.0] C
C36_HeaterSuggestion ==
  [][ThermalUpdate =>
       /\ tempHtrSetC' =
            constrain(HtrBase + (IF DevRunning
                                 THEN dT_pour_10(currentProfile) ELSE 0),
                      HT_MIN_C * 10, HT_MAX_C * 10)
       /\ tempHtrSetC' \in (HT_MIN_C * 10)..(HT_MAX_C * 10)]_vars

\* a suggestion inside the range made during a run from valid bath and
\* bottle readings: 38.0 + (40.0 - 37.5) + 0.5 = 41.0 C
C36_Witness ==
  /\ runMode = "MODE_DEV" /\ motorRunStartTime # 0 /\ currentProfile = 1
  /\ tempBathC = 400 /\ tempBottleC = 375 /\ offHtr_10 = 0
  /\ tempHtrSetC = 410

\* the three samples of that update and those of them that are valid
Samples == <<tempBathC', tempTankC', tempBottleC'>>
ValidSamples == {k \in 1..3 : isValidTempC(Samples[k])}
SumValid ==
  (IF 1 \in ValidSamples THEN Samples[1] ELSE 0)
  + (IF 2 \in ValidSamples THEN Samples[2] ELSE 0)
  + (IF 3 \in ValidSamples THEN Samples[3] ELSE 0)

\* C37: after every thermal update a missing sample is exactly the
\* sentinel (no offset added); the mean is the sum of the valid samples
\* divided by their number (to the last kept digit); the driver is the
\* mean or a valid sample; with no valid sample the mean and the lag
\* estimate are the sentinel
C37_InvalidSamplesExcluded ==
  [][ThermalUpdate =>
       /\ \A k \in 1..3 : Samples[k] < 0 /\ ~isValidTempC(Samples[k])
                             => Samples[k] = INVALID_10
       /\ ValidSamples # {} =>
            /\ abs(tempMeanC' * Cardinality(ValidSamples) - SumValid * FINE)
                 < Cardinality(ValidSamples)
            /\ isValidFine(Driver) /\ isValidFine(tempDevC')
            /\ Driver \in {tempMeanC'} \cup
                          {Samples[k] * FINE : k \in ValidSamples}
       /\ ValidSamples = {} =>
            /\ tempMeanC' = INVALID_10 * FINE
            /\ tempDevC' = INVALID_10 * FINE]_vars

\* bath and tank valid with an offset of 3.0 C each, the bottle missing:
\* the mean is (43.0 + 40.8) / 2 = 41.9 C
C37_Witness ==
  /\ tempBathC = 430 /\ tempTankC = 408 /\ tempBottleC = INVALID_10
  /\ offBottle_10 = 30 /\ tempMeanC = 419 * FINE /\ isValidFine(tempDevC)

\* a completed run is waiting for its return to the menu
ReturnPending == showMenuAfterStop /\ motorRunStartTime = 0

\* the time left until the grace delay has passed since the stop
GraceLeft == stopTimeMs + MENU_DELAY_MS - now

\* while a return is pending, an iteration 1 ms before the end of the grace
\* delay leaves the flag set, and the first iteration at or after its end
\* reaches the dispatcher in Wait with the flag cleared, whatever case the
\* dispatcher was in
ReturnAtGrace ==
  ReturnPending =>
      /\ GraceLeft > 0 => AtSwitch(GraceLeft - 1).showMenuAfterStop
      /\ \E d \in {IF GraceLeft > 0 THEN GraceLeft ELSE 0} :
            /\ AtSwitch(d).currentState = "ST_WAIT"
            /\ ~AtSwitch(d).showMenuAfterStop

\* the flag is cleared only with the motor stopped and the delay passed
NotBeforeGrace ==
  showMenuAfterStop /\ ~showMenuAfterStop' =>
      motorRunStartTime = 0 /\ now' - stopTimeMs >= MENU_DELAY_MS

\* a timed run has completed in this iteration
Completed == stopTimeMs' # stopTimeMs

\* C38 as stated: the return is made at the first iteration 3000 ms or more
\* after the stop and not before, and every completed run has its own
\* return: none completes while the return of an earlier one is pending
C38_MenuReturnsOncePerRun ==
  [][/\ ReturnAtGrace /\ NotBeforeGrace
     /\ Completed => ~showMenuAfterStop]_vars

\* C38 amended: the return is made at the first iteration 3000 ms or more
\* after the latest stop and not before; a run that completes while a
\* return is pending restarts the delay, and the two runs share one return
C38_MenuReturnsAfterGrace ==
  [][/\ ReturnAtGrace /\ NotBeforeGrace
     /\ Completed => showMenuAfterStop' /\ stopTimeMs' - now \in 0..(now' - now)
     /\ Completed /\ showMenuAfterStop => GraceLeft > 0]_vars

\* the menu has returned 3000 ms or more after a timed stop
C38_Witness ==
  /\ ~showMenuAfterStop /\ stopTimeMs # 0 /\ motorRunStartTime = 0
  /\ runMode = "MODE_IDLE" /\ currentState = "ST_WAIT"
  /\ now - stopTimeMs >= MENU_DELAY_MS


\* ------------------------------------------------------------------------
\* C39
\* ------------------------------------------------------------------------
\* the run-start timestamp is set only in Developing
RunStampInDev == motorRunStartTime # 0 => runMode = "MODE_DEV"

\* the preheat-start timestamp is set exactly in Preheating
PreheatStampIffPreheat ==
  preheatStartTimeMs # 0 <=> runMode = "MODE_PREHEAT"

\* a development run or a preheat begins in this iteration
StartsDev == motorRunStartTime' # 0 /\ motorRunStartTime' # motorRunStartTime
StartsPreheat ==
  preheatStartTimeMs' # 0 /\ preheatStartTimeMs' # preheatStartTimeMs

\* key C is handled by ST_WAIT in this iteration, the mode being m when the
\* switch is reached
CPressIn(m) ==
  /\ rawKey' = "C"
  /\ \E s \in {AtSwitch(now' - now)} :
        s.currentState = "ST_WAIT" /\ s.runMode = m

\* C39 (as stated): at every loop boundary a set run-start timestamp
\* implies Developing, the preheat-start timestamp is set iff Preheating,
\* a run or a preheat starts only from Idle, and a C press in any other mode
\* is a stop
C39_ModesExclusive ==
  [][/\ RunStampInDev /\ PreheatStampIffPreheat
     /\ StartsDev \/ StartsPreheat => runMode = "MODE_IDLE"
     /\ \A m \in {"MODE_DEV", "MODE_PREHEAT"} :
           CPressIn(m) => currentState' = "ST_IDLE"
     /\ CPressIn("MODE_IDLE") =>
           currentState' \in {"ST_STARTMOTOR", "ST_PREHEAT"}]_vars


\* ------------------------------------------------------------------------
\* C40
\* ------------------------------------------------------------------------
ValidIndex(p) == p \in 0..(NPROFILES - 1)

\* nothing has been typed since setup(): the profile is the one loaded
JustLoaded == nKeys = 0 /\ now = BootMs

\* this iteration takes the A-alone timeout of ST_WAIT
Advance ==
  /\ currentState = "ST_WAIT" /\ awaitCalCombo /\ pendingAProfile
  /\ now' - calComboStart > CAL_COMBO_MS

\* this iteration handles B alone on the TEMP page
Retreat ==
  /\ currentState = "ST_WAIT" /\ rawKey' = "B" /\ nKeys' = nKeys + 1
  /\ currentPage = "PAGE_TEMP" /\ runMode = "MODE_IDLE"
  /\ ~Advance
  /\ ~(awaitCalCombo /\ now' - calComboStart <= CAL_COMBO_MS)

\* this iteration closes a profile jump with '#'
Jump ==
  /\ currentState = "ST_WAIT" /\ rawKey' = "#" /\ nKeys' = nKeys + 1
  /\ currentPage = "PAGE_TEMP" /\ profSelectMode /\ ~Advance

\* C40: the active profile index is a valid catalog index in every reachable
\* state: a stored index outside the catalog is replaced by 1 when a record
\* of the current version is loaded; advance and retreat wrap around and
\* undo each other; a jump selects a catalog entry or changes nothing; and
\* no iteration that starts on the DEV page changes the active profile
C40_ProfileIndexValid ==
  [][/\ ValidIndex(currentProfile) /\ ValidIndex(currentProfile')
     /\ JustLoaded =>
           currentProfile = IF settings.profileIndex < NPROFILES
                            THEN settings.profileIndex ELSE 1
     /\ Advance =>
           currentProfile' = IF currentProfile = NPROFILES - 1 THEN 0
                             ELSE currentProfile + 1
     /\ Retreat =>
           currentProfile' = IF currentProfile = 0 THEN NPROFILES - 1
                             ELSE currentProfile - 1
     /\ profileBackward(profileForward(St)).currentProfile = currentProfile
     /\ profileForward(profileBackward(St)).currentProfile = currentProfile
     /\ Jump => \/ currentProfile' = currentProfile
                \/ profileId(currentProfile') = atoi(profBuf)
     /\ currentPage = "PAGE_DEV" => currentProfile' = currentProfile]_vars

\* a power-up on a stored index outside the catalog (the only start of
\* SpecProfile at profile 1), the TEMP page opened with D and B pressed
\* twice: the second retreat has wrapped from the first entry to the last
C40_Witness ==
  /\ currentProfile = NPROFILES - 1 /\ rawKey = "B" /\ nKeys = 3
  /\ settings.profileIndex = NPROFILES - 1 /\ currentPage = "PAGE_TEMP"

====
